---- MODULE Spec2Model ----
(***************************************************************************)
(* Model of the append-only key/value store of ontv (src/ontv/database.py):*)
(* the versioned entry codecs (V1Block, V2Block), the FilesystemDriver,    *)
(* DictStorage (replay, pending log, commit, compact), the DictDB / SetDB  *)
(* views and the open_database session.                                    *)
(*                                                                         *)
(* A file is a sequence of lines, a line is a sequence of one-character    *)
(* strings that ends with "\n" (the two header tokens "version" and        *)
(* "1.0"/"2.0" are kept as single atoms).  Python values are records       *)
(* [t |-> type tag, v |-> characters], so that every value compares with   *)
(* every other one.                                                        *)
(***************************************************************************)
EXTENDS Integers, Sequences, FiniteSets, TLC

\* ------------------------------------------------------------------ bounds
\* most entry lines the live file may hold before the view stops enqueuing
MaxEntries == 2
\* most entries of the pending queue (DictStorage._log)
MaxLog == 2
\* largest compaction_limit a caller passes to open_database
MaxLimit == 1

\* bound: elements a list value holds at most
MaxList == 2

\* bound: list objects a session holds at most
MaxObjects == 1

\* bound: entries of file and queue together in a session that holds list
\* objects
MaxQueue == 3

\* ------------------------------------------------------- python values
PyNone == [t |-> "none", v |-> <<>>]

PyStr(cs) == [t |-> "str", v |-> cs]

PyInt(ds) == [t |-> "int", v |-> ds]

\* keys the callers use: a plain one and one holding a space
Keys == {PyStr(<<"a">>), PyStr(<<"b", " ", "c">>)}

\* values stored through the map view
Values == {PyInt(<<"1">>), PyInt(<<"2">>)}

\* a list as json.loads returns it: an object nothing else refers to yet
PyList(xs) == [t |-> "list", v |-> xs]

\* a reference to list object o of the session's heap
PyRef(o) == [t |-> "ref", v |-> o]

\* the contents a list value can have
Lists == UNION {[1..n -> Values] : n \in 0..MaxList}

\* the calls of the scenario the documentation walks through, on an empty
\* store: set a, set b, delete a, clear, set c
Script ==
  << <<"setitem", PyStr(<<"a">>), PyInt(<<"1">>)>>,
     <<"setitem", PyStr(<<"b">>), PyInt(<<"2">>)>>,
     <<"delitem", PyStr(<<"a">>)>>,
     <<"clear">>,
     <<"setitem", PyStr(<<"c">>), PyInt(<<"3">>)>> >>

\* the calls of the scenario with that name
ScriptCalls(name) == {Script[i] : i \in {j \in 1..Len(Script) : Script[j][1] = name}}

\* keys and values the scenario stores
ScriptDocs ==
  UNION {{c[2], c[3]} : c \in ScriptCalls("setitem")}

\* every document json.loads can return in this model
JsonDocs ==
  Keys \cup Values \cup {PyStr(<<>>)} \cup ScriptDocs \cup {PyList(xs) : xs \in Lists}

\* ------------------------------------------------------ string helpers
SPACE == " "

DELIM == "\n"

Whitespace == {" ", "\n", "\t", "\r"}

Digits == <<"0", "1", "2", "3", "4", "5", "6", "7", "8", "9">>

\* python's s[lo:hi] for 0 <= lo and any hi >= 0 (clamped to the string)
PySlice(s, lo, hi) ==
  LET h == IF hi > Len(s) THEN Len(s) ELSE hi
  IN  IF lo >= h THEN <<>> ELSE SubSeq(s, lo + 1, h)

\* index of the first occurrence of character c in s, 0 when there is none
RECURSIVE IndexOf(_, _, _)
IndexOf(s, c, i) ==
  IF i > Len(s) THEN 0
  ELSE IF s[i] = c THEN i
  ELSE IndexOf(s, c, i + 1)

\* python's s.split(sep, maxsplit)
RECURSIVE Split(_, _, _)
Split(s, sep, maxsplit) ==
  LET i == IndexOf(s, sep, 1)
  IN  IF maxsplit = 0 \/ i = 0 THEN <<s>>
      ELSE <<SubSeq(s, 1, i - 1)>> \o Split(SubSeq(s, i + 1, Len(s)), sep, maxsplit - 1)

\* python's s.strip()
RECURSIVE Strip(_)
Strip(s) ==
  IF s = <<>> THEN s
  ELSE IF s[1] \in Whitespace THEN Strip(Tail(s))
  ELSE IF s[Len(s)] \in Whitespace THEN Strip(SubSeq(s, 1, Len(s) - 1))
  ELSE s

\* python's str(n) for a natural number
RECURSIVE StrOfInt(_)
StrOfInt(n) ==
  IF n < 10 THEN <<Digits[n + 1]>>
  ELSE StrOfInt(n \div 10) \o <<Digits[(n % 10) + 1]>>

IsDigit(c) == \E d \in 1..10 : Digits[d] = c

DigitVal(c) == (CHOOSE d \in 1..10 : Digits[d] = c) - 1

\* python's int(s): -1 stands for the ValueError it raises
RECURSIVE IntOfStr(_)
IntOfStr(s) ==
  IF s = <<>> \/ \E i \in 1..Len(s) : ~IsDigit(s[i]) THEN -1
  ELSE IF Len(s) = 1 THEN DigitVal(s[1])
  ELSE 10 * IntOfStr(SubSeq(s, 1, Len(s) - 1)) + DigitVal(s[Len(s)])

\* ---------------------------------------------------------------- json
\* json.dumps on the documents of the model
RECURSIVE JsonDumps(_)
JsonDumps(d) ==
  IF d.t = "str" THEN <<"\"">> \o d.v \o <<"\"">>
  ELSE IF d.t = "int" THEN d.v
  ELSE IF d.t = "list" THEN
    IF d.v = <<>> THEN <<"[", "]">>
    ELSE IF Len(d.v) = 1 THEN <<"[">> \o JsonDumps(d.v[1]) \o <<"]">>
    ELSE <<"[">> \o JsonDumps(d.v[1]) \o <<",", " ">> \o Tail(JsonDumps(PyList(Tail(d.v))))
  ELSE <<"n", "u", "l", "l">>

\* json.loads succeeds exactly on the text of a document, blanks around it
\* allowed
JsonParses(s) == \E d \in JsonDocs : JsonDumps(d) = Strip(s)

JsonLoads(s) == CHOOSE d \in JsonDocs : JsonDumps(d) = Strip(s)

json_load(v) ==
  IF v = <<>> THEN PyNone
  ELSE IF JsonParses(v) THEN JsonLoads(v)
  ELSE PyNone

json_dump(v) ==
  IF v = PyNone THEN <<>>
  ELSE JsonDumps(v)

\* ------------------------------------------------------------ dicts
EmptyDict == [k \in {} |-> PyNone]

DictSet(d, k, val) == [x \in (DOMAIN d) \cup {k} |-> IF x = k THEN val ELSE d[x]]

DictDel(d, k) == [x \in (DOMAIN d) \ {k} |-> d[x]]

\* --------------------------------------------------------- block codecs
V1 == "1.0"

V2 == "2.0"

\* FilesystemDriver.block_formats
block_formats == {V1, V2}

\* FilesystemDriver.default_block
default_block == V2

\* DictStorage operation tags
VALUE == <<"+">>

DELETION == <<"-">>

CLEAR == <<"X">>

\* StandardHeader.dump_header on BaseBlock.header()
dump_header(version) == <<"version", "=", version>>

\* what BaseBlock.write_header writes
write_header(version) == dump_header(version) \o <<DELIM>>

\* header['version'] on the pairs StandardHeader.load_header builds its dict
\* from: err is "" or the exception raised
HeaderVersion(pairs) ==
  IF \E i \in 1..Len(pairs) : Len(pairs[i]) # 2
    THEN [err |-> "ValueError", version |-> ""]
  ELSE IF ~\E i \in 1..Len(pairs) : pairs[i][1] = <<"version">>
    THEN [err |-> "KeyError", version |-> ""]
  ELSE
    LET last == CHOOSE i \in 1..Len(pairs) :
                  /\ pairs[i][1] = <<"version">>
                  /\ \A j \in (i + 1)..Len(pairs) : pairs[j][1] # <<"version">>
    IN  [err |-> "",
         version |-> IF Len(pairs[last][2]) = 1 THEN pairs[last][2][1] ELSE "?"]

HeaderPairs(fields) == [i \in 1..Len(fields) |-> Split(fields[i], "=", 1)]

\* StandardHeader.load_header followed by header['version']
load_header(s) ==
  IF s = <<>> THEN [err |-> "TypeError", version |-> ""]
  ELSE HeaderVersion(HeaderPairs(Split(s, SPACE, -1)))

\* Block.dump_key / load_key / dump_value / load_value of each version
dump_key(version, key) ==
  IF version = V1 THEN key.v ELSE json_dump(key)

load_key(version, raw) ==
  IF version = V1 THEN PyStr(raw) ELSE json_load(raw)

dump_value(version, val) == json_dump(val)

\* a load_value that keeps the text it cannot parse
load_value_raw(version, raw) ==
  IF JsonParses(raw) THEN JsonLoads(raw) ELSE PyStr(raw)

load_value(version, raw) == json_load(raw)

\* the line V1Block.write_entry writes
V1Block_write_entry(op, key, val) ==
  LET k == dump_key(V1, key)
      w == dump_value(V1, val)
      key_length == StrOfInt(Len(k))
  IN  op \o <<SPACE>> \o key_length \o <<SPACE>> \o k \o <<SPACE>> \o w \o <<DELIM>>

\* the line V2Block.write_entry writes
V2Block_write_entry(op, key, val) ==
  op \o <<SPACE>> \o dump_key(V2, key) \o <<SPACE>> \o dump_value(V2, val) \o <<DELIM>>

write_entry(version, op, key, val) ==
  IF version = V1 THEN V1Block_write_entry(op, key, val)
  ELSE V2Block_write_entry(op, key, val)

NoEntry(e) == [err |-> e, op |-> <<>>, key |-> <<>>, value |-> <<>>]

\* V1Block.load_entry after the split, with key_length = int(parts[2])
V1Fields(parts, key_length) ==
  IF key_length < 0 THEN NoEntry("ValueError")
  ELSE [err |-> "", op |-> parts[1],
        key |-> PySlice(parts[3], 0, key_length),
        value |-> PySlice(parts[3], key_length + 1, Len(parts[3]) - 1)]

V1Parts(parts) ==
  IF Len(parts) # 3 THEN NoEntry("ValueError")
  ELSE V1Fields(parts, IntOfStr(parts[2]))

\* V1Block.load_entry: op, raw key and raw value of a line
V1Block_load_entry(line) == V1Parts(Split(line, SPACE, 2))

V2Parts(parts) ==
  IF Len(parts) # 3 THEN NoEntry("ValueError")
  ELSE [err |-> "", op |-> parts[1], key |-> parts[2], value |-> parts[3]]

\* V2Block.load_entry
V2Block_load_entry(line) == V2Parts(Split(line, SPACE, 2))

load_entry(version, line) ==
  IF version = V1 THEN V1Block_load_entry(line) ELSE V2Block_load_entry(line)

\* ------------------------------------------------------ FilesystemDriver
\* an absent file
NoFile == <<<<"ENOENT">>>>

\* a side file left by an interrupted compaction: it holds whatever that
\* process had flushed; no code reads it and the next compaction truncates it
Stale == <<<<"stale">>>>

\* what a read of the path sees
Content(f) == IF f = NoFile THEN <<>> ELSE f

\* the block format the driver writes with: set once in __init__
driver_block == default_block

\* createyielder reading a file of an unknown version with the default block
Yielder_default(header, lines) ==
  IF header.err # "" THEN [err |-> header.err, version |-> "", lines |-> <<>>]
  ELSE IF header.version \notin block_formats
    THEN [err |-> "", version |-> default_block, lines |-> lines]
  ELSE [err |-> "", version |-> header.version, lines |-> lines]

Yielder(header, lines) ==
  IF header.err # "" THEN [err |-> header.err, version |-> "", lines |-> <<>>]
  ELSE IF header.version \notin block_formats
    THEN [err |-> "Exception: unknown block format version",
          version |-> header.version, lines |-> <<>>]
  ELSE [err |-> "", version |-> header.version, lines |-> lines]

\* FilesystemDriver.createyielder on the content of the live file: the
\* version to read with and the lines left after the header
createyielder(content) ==
  IF content = <<>> \/ content[1] = <<>>
    THEN Yielder([err |-> "", version |-> default_block],
                 IF content = <<>> THEN <<>> ELSE Tail(content))
  ELSE Yielder(load_header(Strip(content[1])), Tail(content))

\* index of the last "/" of a path, 0 when it has none (p.rfind('/') + 1)
LastSlash(p) ==
  IF \E i \in 1..Len(p) : p[i] = "/"
    THEN CHOOSE i \in 1..Len(p) : p[i] = "/" /\ \A j \in (i + 1)..Len(p) : p[j] # "/"
    ELSE 0

\* python's s.rstrip('/')
RECURSIVE RStripSlash(_)
RStripSlash(s) ==
  IF s # <<>> /\ s[Len(s)] = "/" THEN RStripSlash(SubSeq(s, 1, Len(s) - 1)) ELSE s

\* os.path.dirname
dirname(p) ==
  LET head == SubSeq(p, 1, LastSlash(p))
  IN  IF head # <<>> /\ \E i \in 1..Len(head) : head[i] # "/"
        THEN RStripSlash(head)
        ELSE head

\* os.path.basename
basename(p) == SubSeq(p, LastSlash(p) + 1, Len(p))

\* os.path.join(a, b)
join(a, b) ==
  IF b # <<>> /\ b[1] = "/" THEN b
  ELSE IF a = <<>> \/ a[Len(a)] = "/" THEN a \o b
  ELSE a \o <<"/">> \o b

\* FilesystemDriver.__init__: self._compact_path
compact_path(path) ==
  join(dirname(path),
       <<".">> \o basename(path) \o <<".", "c", "o", "m", "p", "a", "c", "t">>)

\* appendlog writing the queue from its end to its start
appendlog_reversed(f, log) ==
  IF log = <<>> THEN f
  ELSE
    LET old == Content(f)
        head == IF old = <<>> THEN <<write_header(driver_block)>> ELSE <<>>
    IN  old \o head \o
        [i \in 1..Len(log) |->
           write_entry(driver_block, log[Len(log) + 1 - i][1], log[Len(log) + 1 - i][2],
                       log[Len(log) + 1 - i][3])]

\* appendlog opening the file with 'w': what the file held is lost
appendlog_truncate(f, log) ==
  IF log = <<>> THEN f
  ELSE <<write_header(driver_block)>> \o
       [i \in 1..Len(log) |-> write_entry(driver_block, log[i][1], log[i][2], log[i][3])]

\* appendlog writing the header without asking fd.tell()
appendlog_header_always(f, log) ==
  IF log = <<>> THEN f
  ELSE Content(f) \o <<write_header(driver_block)>> \o
       [i \in 1..Len(log) |-> write_entry(driver_block, log[i][1], log[i][2], log[i][3])]

\* the lines appendlog writes for a queue that is not empty: the header when
\* fd.tell() is 0, then one line for each entry
appendlog_lines(f, log) ==
  (IF Content(f) = <<>> THEN <<write_header(driver_block)>> ELSE <<>>)
  \o [i \in 1..Len(log) |-> write_entry(driver_block, log[i][1], log[i][2], log[i][3])]

\* the lines of a file after bytes are appended to it: what is appended
\* continues the last line when that line has no line end
Appended(old, new) ==
  IF old # <<>> /\ new # <<>> /\ old[Len(old)][Len(old[Len(old)])] # DELIM
    THEN SubSeq(old, 1, Len(old) - 1) \o <<old[Len(old)] \o new[1]>> \o Tail(new)
    ELSE old \o new

\* appendlog without its early return: the header is written to an empty
\* file even when the queue is empty
appendlog_no_return(f, log) == Appended(Content(f), appendlog_lines(f, log))

\* what FilesystemDriver.appendlog leaves in the live file
appendlog(f, log) ==
  IF log = <<>> THEN f
  ELSE Appended(Content(f), appendlog_lines(f, log))

\* ------------------------------------------------------------ DictStorage
NoStats == [none |-> TRUE, clears |-> 0, deletions |-> 0, noops |-> 0]

DictStorageStats(c, d, n) == [none |-> FALSE, clears |-> c, deletions |-> d, noops |-> n]

\* the loop of _read_cache passing over an entry it does not know
ReadStep_skip(acc, e) ==
  IF e.err # "" THEN [acc EXCEPT !.err = e.err]
  ELSE IF e.op = DELETION THEN
    IF e.key \in DOMAIN acc.data
      THEN [acc EXCEPT !.data = DictDel(acc.data, e.key),
                       !.deletions = acc.deletions + 1]
    ELSE [acc EXCEPT !.err = "KeyError"]
  ELSE IF e.op = CLEAR THEN
    [acc EXCEPT !.data = [k \in {} |-> <<>>], !.clears = acc.clears + 1]
  ELSE IF e.op = VALUE THEN
    [acc EXCEPT !.data = DictSet(acc.data, e.key, e.value)]
  ELSE acc

\* one turn of the loop of DictStorage._read_cache on the entry e
ReadStep(acc, e) ==
  IF e.err # "" THEN [acc EXCEPT !.err = e.err]
  ELSE IF e.op = DELETION THEN
    IF e.key \in DOMAIN acc.data
      THEN [acc EXCEPT !.data = DictDel(acc.data, e.key),
                       !.deletions = acc.deletions + 1]
    ELSE [acc EXCEPT !.err = "KeyError"]
  ELSE IF e.op = CLEAR THEN
    [acc EXCEPT !.data = [k \in {} |-> <<>>], !.clears = acc.clears + 1]
  ELSE IF e.op = VALUE THEN
    [acc EXCEPT !.data = DictSet(acc.data, e.key, e.value)]
  ELSE [acc EXCEPT !.err = "Exception: unknown operation"]

\* the loop of DictStorage._read_cache over the lines from index i on
RECURSIVE ReadLoop(_, _, _, _)
ReadLoop(version, lines, i, acc) ==
  IF i > Len(lines) \/ acc.err # "" THEN acc
  ELSE ReadLoop(version, lines, i + 1, ReadStep(acc, load_entry(version, lines[i])))

\* the end of DictStorage._read_cache: the surviving raw items go through
\* load_item, the statistics are built
ReadResult(version, r) ==
  IF r.err # "" THEN [err |-> r.err, stats |-> NoStats, data |-> EmptyDict]
  ELSE [err |-> "",
        stats |-> DictStorageStats(r.clears, r.deletions, r.deletions + r.clears),
        data |-> [dk \in {load_key(version, k) : k \in DOMAIN r.data} |->
                   load_value(version,
                     r.data[CHOOSE k \in DOMAIN r.data : load_key(version, k) = dk])]]

\* DictStorage._read_cache: err, the statistics and the decoded snapshot
DictStorage_read_cache(yielder) ==
  IF yielder.err # "" THEN [err |-> yielder.err, stats |-> NoStats, data |-> EmptyDict]
  ELSE ReadResult(yielder.version,
         ReadLoop(yielder.version, yielder.lines, 1,
           [err |-> "", data |-> [k \in {} |-> <<>>], clears |-> 0, deletions |-> 0]))

\* DictStorage.read on a live file: createyielder, then _read_cache
DictStorage_read(f) == DictStorage_read_cache(createyielder(Content(f)))

\* the entries DictStorage.setitem / delitem / clear put on the queue
setitem(key, val) == <<VALUE, key, val>>

\* a deletion entry that carries a value
delitem_value(key) == <<DELETION, key, PyInt(<<"1">>)>>

delitem(key) == <<DELETION, key, PyNone>>

clear_entry == <<CLEAR, PyStr(<<>>), PyNone>>

\* ---------------------------------------------------------------- state
VARIABLES
  disk,       \* the live file: NoFile or its lines
  side,       \* the compaction side file '.<name>.compact': NoFile, its
              \* lines while it is written, Stale once abandoned
  pc,         \* "closed", "open", "compacting" (db.compact() called by the
              \* caller), "autocompacting" (called by open_database)
  impl,       \* the view class of the session: "DictDB" or "SetDB"
  db,         \* the view's snapshot (a SetDB member maps to None)
  log,        \* DictStorage._log, the pending queue
  stats,      \* DictStorage._stats
  todo,       \* keys the running compaction has not written yet
  err,        \* exception raised by the last operation, "" for none
  exit,       \* how the last session ended
  ref,        \* history: a plain mapping the caller's operations are replayed on
  openKeys,   \* history: the keys the store held when the view was handed out
  preDisk,    \* history: the live file when the running compaction began
  openStats,  \* history: the statistics the replay of this session computed
  overLimit,  \* history: that replay counted more no-ops than compaction_limit
  autoCompactions, \* history: compactions done before the view was handed out
  inRow,      \* history: compactions in a row just done (saturates at 2)
  firstCompact, \* history: the live file after the first compaction in that row
  compacted,  \* history: the caller has called compact() in this session
  flushed,    \* history: the queue the last normal exit handed to appendlog
  fd,         \* the file handle createyielder opened at the last open:
              \* "none", "open" or "closed"
  gen,        \* the BlockYielder a caller of the driver holds and the
              \* generator its readblocks() made: NoYielder when none
  ret,        \* what the last call on the view returned, for the calls
              \* whose result is kept: NoReturn when none
  heap,       \* the list objects alive in the session: identity |-> elements
  trace       \* history: the calls the caller has made on the view, kept
              \* only in runs that start with an empty trace (NoTrace: not kept)

vars == <<disk, side, pc, impl, db, log, stats, todo, err, exit, ref, openKeys,
          preDisk, openStats, overLimit, autoCompactions, inRow, firstCompact,
          compacted, flushed, fd, gen, ret, heap, trace>>

history == <<ref, openKeys, preDisk, openStats, overLimit, autoCompactions, inRow,
             firstCompact, compacted, flushed>>

\* what the steps of a compaction leave alone besides the history
aux == <<fd, gen, ret, heap, trace>>

\* no call has returned a result that is kept
NoReturn == <<"none">>

\* compact() has returned the statistics st
ReturnedStats(st) == <<"stats", st>>

\* no BlockYielder has been made
NoYielder == [block |-> "", rest |-> <<>>, file |-> "None", it |-> "none",
              out |-> <<>>, raised |-> "", calls |-> 0]

ZeroStats == DictStorageStats(0, 0, 0)

\* no list object
EmptyHeap == [o \in {} |-> <<>>]

\* the trace of a run that keeps none
NoTrace == <<<<"off">>>>

\* the trace after one more call
Record(call) == IF trace = NoTrace THEN trace ELSE Append(trace, call)

\* number of entry lines of a file
Entries(f) == IF Content(f) = <<>> THEN 0 ELSE Len(Content(f)) - 1

\* the view may enqueue one more entry (a run that keeps a trace is bounded
\* by its scenario instead)
Room ==
  \/ trace # NoTrace
  \/ heap = EmptyHeap /\ Len(log) < MaxLog /\ Entries(disk) + Len(log) < MaxEntries
  \/ heap # EmptyHeap /\ Entries(disk) + Len(log) < MaxQueue

\* the view may enqueue the deletion of a key it holds: one entry more than
\* Room allows, so that a snapshot of MaxEntries keys can lose one
RoomToRemove ==
  \/ Room
  \/ heap = EmptyHeap /\ Len(log) < MaxLog /\ Entries(disk) + Len(log) <= MaxEntries

\* the value json.dumps sees when it is handed v: the present content of the
\* list object for a reference
Deref(v) == IF v.t = "ref" THEN PyList(heap[v.v]) ELSE v

\* the same value read on heap h
DerefIn(h, v) == IF v.t = "ref" THEN PyList(h[v.v]) ELSE v

\* the queue as appendlog's loop reads it
DerefLog(q) == [i \in 1..Len(q) |-> <<q[i][1], q[i][2], Deref(q[i][3])>>]

\* the identity of the next list object python creates
NewObject == Cardinality(DOMAIN heap) + 1

\* the heap with list object o holding xs
HeapSet(o, xs) == [x \in (DOMAIN heap) \cup {o} |-> IF x = o THEN xs ELSE heap[x]]

\* position of a call in the scenario, 0 for a call that is not part of it
ScriptIndex(call) ==
  IF \E i \in 1..Len(Script) : Script[i] = call
    THEN CHOOSE i \in 1..Len(Script) : Script[i] = call
    ELSE 0

\* the caller may make this call now: a run that keeps a trace makes calls
\* of its scenario only, in the scenario's order, skipping any of them
MayCall(call) ==
  \/ trace = NoTrace
  \/ /\ ScriptIndex(call) > 0
     /\ trace # <<>> => ScriptIndex(call) > ScriptIndex(trace[Len(trace)])

\* stores left by a release that wrote with V1Block: the logs they hold
LegacyLogs ==
  { <<setitem(PyStr(<<"a">>), PyInt(<<"1">>))>>,
    <<setitem(PyStr(<<"b", " ", "c">>), PyInt(<<"2">>))>>,
    <<setitem(PyStr(<<"a">>), PyInt(<<"1">>)), delitem(PyStr(<<"a">>))>> }

LegacyFile(l) ==
  <<write_header(V1)>> \o
  [i \in 1..Len(l) |-> V1Block_write_entry(l[i][1], l[i][2], l[i][3])]

InitFiles == {NoFile} \cup {LegacyFile(l) : l \in LegacyLogs}

\* what no session leaves in memory
NoSession ==
  /\ impl = ""
  /\ db = EmptyDict
  /\ log = <<>>
  /\ stats = NoStats
  /\ todo = {}

Init ==
  /\ disk \in InitFiles
  /\ side = NoFile
  /\ pc = "closed"
  /\ NoSession
  /\ err = ""
  /\ exit = "none"
  /\ ref = EmptyDict
  /\ openKeys = {}
  /\ preDisk = NoFile
  /\ openStats = NoStats
  /\ overLimit = FALSE
  /\ autoCompactions = 0
  /\ inRow = 0
  /\ firstCompact = NoFile
  /\ compacted = FALSE
  /\ flushed = <<>>
  /\ fd = "none"
  /\ gen = NoYielder
  /\ ret = NoReturn
  /\ heap = EmptyHeap
  /\ trace = NoTrace

\* the snapshot the view class builds from the replayed cache
\* (DictDB.__init__, SetDB.__init__)
View(cls, cache) ==
  IF cls = "SetDB" THEN [k \in DOMAIN cache |-> PyNone] ELSE cache

\* ------------------------------------------------------- open_database
\* the default of open_database's parameter compaction_limit
compaction_limit_default == 1000

\* the test open_database makes on the replayed statistics, taken with >=
needs_compaction_ge(st, compaction_limit) == st.noops >= compaction_limit

\* the test open_database makes on the replayed statistics
needs_compaction(st, compaction_limit) == st.noops > compaction_limit

\* what becomes of the handle createyielder opened when read() raises.
\* load_entry raises inside readblocks, whose finally closes the file.
\* createyielder itself and the loop body of _read_cache raise with the file
\* open and no code closes it: the file object is closed when the garbage
\* collector finalizes it, which may be at once or not before the process ends.
HandleAfterRaise(yielder, r) ==
  IF yielder.err = "" /\ r.err = "ValueError" THEN {"closed"}
  ELSE {"open", "closed"}

\* open_database up to the failed read(): createyielder has created the
\* file, nothing else is left
open_database_fail(cls, compaction_limit) ==
  /\ pc = "closed"
  /\ \E r \in {DictStorage_read(disk)} :
       /\ r.err # ""
       /\ err' = r.err
       /\ fd' \in HandleAfterRaise(createyielder(Content(disk)), r)
       /\ gen' = gen
       /\ ret' = NoReturn
  /\ disk' = Content(disk)
  /\ exit' = "openfailed"
  /\ pc' = "closed"
  /\ impl' = "" /\ db' = EmptyDict /\ log' = <<>> /\ stats' = NoStats /\ todo' = {}
  /\ ref' = EmptyDict /\ openKeys' = {} /\ preDisk' = NoFile
  /\ openStats' = NoStats /\ overLimit' = FALSE
  /\ autoCompactions' = 0 /\ inRow' = 0 /\ firstCompact' = NoFile
  /\ compacted' = FALSE /\ flushed' = <<>>
  /\ UNCHANGED <<side, heap, trace>>

\* open_database when the replayed no-ops do not exceed the limit: the view
\* is handed out
open_database_yield(cls, compaction_limit) ==
  \E r \in {DictStorage_read(disk)} :
      /\ pc = "closed"
      /\ r.err = ""
      /\ ~needs_compaction(r.stats, compaction_limit)
      /\ disk' = Content(disk)
      /\ impl' = cls
      /\ db' = View(cls, r.data)
      /\ log' = <<>>
      /\ stats' = r.stats
      /\ todo' = {}
      /\ err' = ""
      /\ exit' = "none"
      /\ pc' = "open"
      /\ ref' = View(cls, r.data)
      /\ openKeys' = DOMAIN r.data
      /\ preDisk' = NoFile
      /\ openStats' = r.stats
      /\ overLimit' = (r.stats.noops > compaction_limit)
      /\ autoCompactions' = 0 /\ inRow' = 0 /\ firstCompact' = NoFile
      /\ compacted' = FALSE /\ flushed' = <<>>
      /\ fd' = "closed"
      /\ gen' = gen
      /\ ret' = NoReturn
      /\ UNCHANGED <<side, heap, trace>>

\* open_database when the no-ops exceed the limit: db.compact() starts, the
\* side file is opened for writing and gets its header
open_database_compact(cls, compaction_limit) ==
  \E r \in {DictStorage_read(disk)} :
      /\ pc = "closed"
      /\ r.err = ""
      /\ needs_compaction(r.stats, compaction_limit)
      /\ disk' = Content(disk)
      /\ impl' = cls
      /\ db' = View(cls, r.data)
      /\ log' = <<>>
      /\ stats' = r.stats
      /\ todo' = DOMAIN r.data
      /\ side' = <<write_header(driver_block)>>
      /\ err' = ""
      /\ exit' = "none"
      /\ pc' = "autocompacting"
      /\ ref' = View(cls, r.data)
      /\ openKeys' = DOMAIN r.data
      /\ preDisk' = Content(disk)
      /\ openStats' = r.stats
      /\ overLimit' = (r.stats.noops > compaction_limit)
      /\ autoCompactions' = 0 /\ inRow' = 0 /\ firstCompact' = NoFile
      /\ compacted' = FALSE /\ flushed' = <<>>
      /\ fd' = "closed"
      /\ gen' = gen
      /\ ret' = NoReturn
      /\ UNCHANGED <<heap, trace>>

\* --------------------------------------------------------------- DictDB
\* DictDB.__setitem__
DictDB_setitem(key, data) ==
  /\ pc = "open" /\ impl = "DictDB" /\ Room
  /\ MayCall(<<"setitem", key, data>>)
  /\ db' = DictSet(db, key, data)
  /\ log' = Append(log, setitem(key, data))
  /\ ref' = DictSet(ref, key, data)
  /\ err' = ""
  /\ trace' = Record(<<"setitem", key, data>>)
  /\ inRow' = 0 /\ firstCompact' = NoFile
  /\ UNCHANGED <<disk, side, pc, impl, stats, todo, exit, openKeys, preDisk,
                 openStats, overLimit, autoCompactions, compacted, flushed, fd, gen, ret, heap>>

\* DictDB.__delitem__: dict.__delitem__ raises KeyError on a missing key
DictDB_delitem(key) ==
  /\ pc = "open" /\ impl = "DictDB"
  /\ MayCall(<<"delitem", key>>)
  /\ IF key \in DOMAIN db
       THEN /\ Room
            /\ db' = DictDel(db, key)
            /\ log' = Append(log, delitem(key))
            /\ err' = ""
       ELSE /\ err' = "KeyError"
            /\ UNCHANGED <<db, log>>
  /\ ref' = IF key \in DOMAIN ref THEN DictDel(ref, key) ELSE ref
  /\ trace' = Record(<<"delitem", key>>)
  /\ inRow' = 0 /\ firstCompact' = NoFile
  /\ UNCHANGED <<disk, side, pc, impl, stats, todo, exit, openKeys, preDisk,
                 openStats, overLimit, autoCompactions, compacted, flushed, fd, gen, ret, heap>>

\* DictDB.clear: dict.clear, then DictStorage.clear is called without the
\* key argument its signature requires, which raises TypeError
DictDB_clear ==
  /\ pc = "open" /\ impl = "DictDB"
  /\ MayCall(<<"clear">>)
  /\ db' = EmptyDict
  /\ err' = "TypeError"
  /\ ref' = EmptyDict
  /\ trace' = Record(<<"clear">>)
  /\ inRow' = 0 /\ firstCompact' = NoFile
  /\ UNCHANGED <<disk, side, pc, impl, log, stats, todo, exit, openKeys, preDisk,
                 openStats, overLimit, autoCompactions, compacted, flushed, fd, gen, ret, heap>>

\* DictDB.pop(key) and DictDB.pop(key, default): dict.pop raises KeyError
\* on a missing key when no default is given and returns the default when
\* one is; then DictStorage.delitem is called
DictDB_pop(key, has_default) ==
  /\ pc = "open" /\ impl = "DictDB"
  /\ MayCall(<<"pop", key>>)
  /\ IF key \in DOMAIN db \/ has_default
       THEN /\ Room
            /\ db' = DictDel(db, key)
            /\ log' = Append(log, delitem(key))
            /\ err' = ""
       ELSE /\ err' = "KeyError"
            /\ UNCHANGED <<db, log>>
  /\ ref' = DictDel(ref, key)
  /\ trace' = Record(<<"pop", key>>)
  /\ inRow' = 0 /\ firstCompact' = NoFile
  /\ UNCHANGED <<disk, side, pc, impl, stats, todo, exit, openKeys, preDisk,
                 openStats, overLimit, autoCompactions, compacted, flushed, fd, gen, ret, heap>>

\* popitem() has returned the pair of key and value
ReturnedPair(key, value) == <<"pair", key, value>>

\* DictDB.popitem that forgets the storage engine
DictDB_popitem_silent ==
  /\ pc = "open" /\ impl = "DictDB"
  /\ MayCall(<<"popitem">>)
  /\ IF db = EmptyDict
       THEN /\ err' = "KeyError"
            /\ ret' = NoReturn
            /\ UNCHANGED <<db, log, ref>>
       ELSE /\ RoomToRemove
            /\ \E key \in DOMAIN db :
                 /\ db' = DictDel(db, key)
                 /\ log' = log
                 /\ ref' = DictDel(ref, key)
                 /\ ret' = ReturnedPair(key, db[key])
            /\ err' = ""
  /\ trace' = Record(<<"popitem">>)
  /\ inRow' = 0 /\ firstCompact' = NoFile
  /\ UNCHANGED <<disk, side, pc, impl, stats, todo, exit, openKeys, preDisk,
                 openStats, overLimit, autoCompactions, compacted, flushed, fd, gen, heap>>

\* DictDB.popitem: dict.popitem removes the item the hash table lists last
\* (KeyError on an empty dict); then DictStorage.delitem is called and the
\* pair is returned
DictDB_popitem ==
  /\ pc = "open" /\ impl = "DictDB"
  /\ MayCall(<<"popitem">>)
  /\ IF db = EmptyDict
       THEN /\ err' = "KeyError"
            /\ ret' = NoReturn
            /\ UNCHANGED <<db, log, ref>>
       ELSE /\ RoomToRemove
            /\ \E key \in DOMAIN db :
                 /\ db' = DictDel(db, key)
                 /\ log' = Append(log, delitem(key))
                 /\ ref' = DictDel(ref, key)
                 /\ ret' = ReturnedPair(key, db[key])
            /\ err' = ""
  /\ trace' = Record(<<"popitem">>)
  /\ inRow' = 0 /\ firstCompact' = NoFile
  /\ UNCHANGED <<disk, side, pc, impl, stats, todo, exit, openKeys, preDisk,
                 openStats, overLimit, autoCompactions, compacted, flushed, fd, gen, heap>>

\* what a call of a method declared (self, **args) raises: TypeError when
\* it is given positional arguments, else what its body raises
Rejected(positional) == IF positional THEN "TypeError" ELSE "NotImplementedError"

\* DictDB.setdefault
DictDB_setdefault(positional) ==
  /\ pc = "open" /\ impl = "DictDB"
  /\ MayCall(<<"setdefault">>)
  /\ err' = Rejected(positional)
  /\ trace' = Record(<<"setdefault">>)
  /\ inRow' = 0 /\ firstCompact' = NoFile
  /\ UNCHANGED <<disk, side, pc, impl, db, log, stats, todo, exit, ref, openKeys,
                 preDisk, openStats, overLimit, autoCompactions, compacted, flushed,
                 fd, gen, ret, heap>>

\* DictDB.update
DictDB_update(positional) ==
  /\ pc = "open" /\ impl = "DictDB"
  /\ MayCall(<<"update">>)
  /\ err' = Rejected(positional)
  /\ trace' = Record(<<"update">>)
  /\ inRow' = 0 /\ firstCompact' = NoFile
  /\ UNCHANGED <<disk, side, pc, impl, db, log, stats, todo, exit, ref, openKeys,
                 preDisk, openStats, overLimit, autoCompactions, compacted, flushed,
                 fd, gen, ret, heap>>

\* the caller creating an empty list, L = []
NewList ==
  /\ pc = "open" /\ impl = "DictDB"
  /\ trace = NoTrace
  /\ Cardinality(DOMAIN heap) < MaxObjects
  /\ heap' = HeapSet(NewObject, <<>>)
  /\ UNCHANGED <<disk, side, pc, impl, db, log, stats, todo, err, exit, fd, gen, ret, trace>>
  /\ UNCHANGED history

\* the object self.get(key, []) returns: the stored list itself, or a new
\* empty list when the key is absent; 0 when the stored value is no list
GetList(key) ==
  IF key \notin DOMAIN db THEN NewObject
  ELSE IF db[key].t = "ref" THEN db[key].v
  ELSE IF db[key].t = "list" THEN NewObject
  ELSE 0

\* what that object holds
GetItems(key) ==
  IF key \notin DOMAIN db THEN <<>>
  ELSE IF db[key].t = "ref" THEN heap[db[key].v]
  ELSE IF db[key].t = "list" THEN db[key].v
  ELSE <<>>

\* DictDB.list_append: array.append(data) changes the object get() returned,
\* then __setitem__ stores and queues that same object
DictDB_list_append(key, data) ==
  /\ pc = "open" /\ impl = "DictDB"
  /\ MayCall(<<"list_append", key, data>>)
  /\ \E o \in {GetList(key)} :
       IF o = 0
         THEN /\ err' = "AttributeError"
              /\ UNCHANGED <<db, log, ref, heap>>
         ELSE /\ Entries(disk) + Len(log) < MaxQueue
              /\ Len(GetItems(key)) < MaxList
              /\ o \in DOMAIN heap \/ Cardinality(DOMAIN heap) < MaxObjects
              /\ heap' = HeapSet(o, Append(GetItems(key), data))
              /\ db' = DictSet(db, key, PyRef(o))
              /\ log' = Append(log, setitem(key, PyRef(o)))
              /\ ref' = DictSet(ref, key, PyRef(o))
              /\ err' = ""
  /\ trace' = Record(<<"list_append", key, data>>)
  /\ inRow' = 0 /\ firstCompact' = NoFile
  /\ UNCHANGED <<disk, side, pc, impl, stats, todo, exit, openKeys, preDisk,
                 openStats, overLimit, autoCompactions, compacted, flushed, fd, gen, ret>>

\* list.remove(data) in the place of the filter: the first occurrence goes
Filter_first(xs, data) ==
  IF \E i \in 1..Len(xs) : xs[i] = data
    THEN LET i == CHOOSE i \in 1..Len(xs) : xs[i] = data /\ \A j \in 1..(i - 1) : xs[j] # data
         IN  SubSeq(xs, 1, i - 1) \o SubSeq(xs, i + 1, Len(xs))
    ELSE xs

\* python's filter(lambda v: v != data, xs) on a list
Filter(xs, data) == SelectSeq(xs, LAMBDA v : v # data)

\* DictDB.list_remove: filter() builds a new list from the one get()
\* returned, then __setitem__ stores and queues the new list; filter raises
\* TypeError on a value that cannot be iterated
DictDB_list_remove(key, data) ==
  /\ pc = "open" /\ impl = "DictDB"
  /\ MayCall(<<"list_remove", key, data>>)
  /\ IF GetList(key) = 0
       THEN /\ err' = "TypeError"
            /\ UNCHANGED <<db, log, ref, heap>>
       ELSE /\ Entries(disk) + Len(log) < MaxQueue
            /\ Cardinality(DOMAIN heap) < MaxObjects
            /\ \E o \in {NewObject} :
                 /\ heap' = HeapSet(o, Filter(GetItems(key), data))
                 /\ db' = DictSet(db, key, PyRef(o))
                 /\ log' = Append(log, setitem(key, PyRef(o)))
                 /\ ref' = DictSet(ref, key, PyRef(o))
            /\ err' = ""
  /\ trace' = Record(<<"list_remove", key, data>>)
  /\ inRow' = 0 /\ firstCompact' = NoFile
  /\ UNCHANGED <<disk, side, pc, impl, stats, todo, exit, openKeys, preDisk,
                 openStats, overLimit, autoCompactions, compacted, flushed, fd, gen, ret>>

\* ---------------------------------------------------------------- SetDB
\* SetDB.add without its membership test
SetDB_add_always(key) ==
  /\ pc = "open" /\ impl = "SetDB"
  /\ MayCall(<<"add", key>>)
  /\ Room
  /\ db' = DictSet(db, key, PyNone)
  /\ log' = Append(log, setitem(key, PyNone))
  /\ ref' = DictSet(ref, key, PyNone)
  /\ err' = ""
  /\ trace' = Record(<<"add", key>>)
  /\ inRow' = 0 /\ firstCompact' = NoFile
  /\ UNCHANGED <<disk, side, pc, impl, stats, todo, exit, openKeys, preDisk,
                 openStats, overLimit, autoCompactions, compacted, flushed, fd, gen, ret, heap>>

\* SetDB.add
SetDB_add(key) ==
  /\ pc = "open" /\ impl = "SetDB"
  /\ MayCall(<<"add", key>>)
  /\ IF key \in DOMAIN db
       THEN UNCHANGED <<db, log>>
       ELSE /\ Room
            /\ db' = DictSet(db, key, PyNone)
            /\ log' = Append(log, setitem(key, PyNone))
  /\ ref' = DictSet(ref, key, PyNone)
  /\ err' = ""
  /\ trace' = Record(<<"add", key>>)
  /\ inRow' = 0 /\ firstCompact' = NoFile
  /\ UNCHANGED <<disk, side, pc, impl, stats, todo, exit, openKeys, preDisk,
                 openStats, overLimit, autoCompactions, compacted, flushed, fd, gen, ret, heap>>

\* SetDB.remove: set.remove raises KeyError on a missing member
SetDB_remove(key) ==
  /\ pc = "open" /\ impl = "SetDB"
  /\ MayCall(<<"remove", key>>)
  /\ IF key \in DOMAIN db
       THEN /\ RoomToRemove
            /\ db' = DictDel(db, key)
            /\ log' = Append(log, delitem(key))
            /\ err' = ""
       ELSE /\ err' = "KeyError"
            /\ UNCHANGED <<db, log>>
  /\ ref' = IF key \in DOMAIN ref THEN DictDel(ref, key) ELSE ref
  /\ trace' = Record(<<"remove", key>>)
  /\ inRow' = 0 /\ firstCompact' = NoFile
  /\ UNCHANGED <<disk, side, pc, impl, stats, todo, exit, openKeys, preDisk,
                 openStats, overLimit, autoCompactions, compacted, flushed, fd, gen, ret, heap>>

\* pop() has returned the member key
ReturnedKey(key) == <<"key", key>>

\* SetDB.pop: set.pop removes a member the hash table picks (KeyError on an
\* empty set); then DictStorage.delitem is called and the member is returned
SetDB_pop ==
  /\ pc = "open" /\ impl = "SetDB"
  /\ MayCall(<<"pop">>)
  /\ IF db = EmptyDict
       THEN /\ err' = "KeyError"
            /\ ret' = NoReturn
            /\ UNCHANGED <<db, log, ref>>
       ELSE /\ RoomToRemove
            /\ \E key \in DOMAIN db :
                 /\ db' = DictDel(db, key)
                 /\ log' = Append(log, delitem(key))
                 /\ ref' = DictDel(ref, key)
                 /\ ret' = ReturnedKey(key)
            /\ err' = ""
  /\ trace' = Record(<<"pop">>)
  /\ inRow' = 0 /\ firstCompact' = NoFile
  /\ UNCHANGED <<disk, side, pc, impl, stats, todo, exit, openKeys, preDisk,
                 openStats, overLimit, autoCompactions, compacted, flushed, fd, gen, heap>>

\* ---------------------------------------- DictStorage, called directly
\* DictStorage.setitem called on the storage of the session
DictStorage_setitem(key, val) ==
  /\ pc = "open" /\ Room
  /\ MayCall(<<"storage.setitem", key, val>>)
  /\ log' = Append(log, <<VALUE, key, val>>)
  /\ err' = ""
  /\ trace' = Record(<<"storage.setitem", key, val>>)
  /\ inRow' = 0 /\ firstCompact' = NoFile
  /\ UNCHANGED <<disk, side, pc, impl, db, stats, todo, exit, ref, openKeys, preDisk,
                 openStats, overLimit, autoCompactions, compacted, flushed, fd, gen, ret, heap>>

\* DictStorage.delitem putting the value it is not given on the queue
DictStorage_delitem_value(key) ==
  /\ pc = "open" /\ Room
  /\ MayCall(<<"storage.delitem", key>>)
  /\ log' = Append(log, <<DELETION, key, PyInt(<<"1">>)>>)
  /\ err' = ""
  /\ trace' = Record(<<"storage.delitem", key>>)
  /\ inRow' = 0 /\ firstCompact' = NoFile
  /\ UNCHANGED <<disk, side, pc, impl, db, stats, todo, exit, ref, openKeys, preDisk,
                 openStats, overLimit, autoCompactions, compacted, flushed, fd, gen, ret, heap>>

\* DictStorage.delitem that counts the deletion into the statistics
DictStorage_delitem_counts(key) ==
  /\ pc = "open" /\ Room
  /\ MayCall(<<"storage.delitem", key>>)
  /\ log' = Append(log, <<DELETION, key, PyNone>>)
  /\ stats' = DictStorageStats(stats.clears, stats.deletions + 1, stats.noops + 1)
  /\ err' = ""
  /\ trace' = Record(<<"storage.delitem", key>>)
  /\ inRow' = 0 /\ firstCompact' = NoFile
  /\ UNCHANGED <<disk, side, pc, impl, db, todo, exit, ref, openKeys, preDisk,
                 openStats, overLimit, autoCompactions, compacted, flushed, fd, gen, ret,
                 heap>>

\* DictStorage.delitem
DictStorage_delitem(key) ==
  /\ pc = "open" /\ Room
  /\ MayCall(<<"storage.delitem", key>>)
  /\ log' = Append(log, <<DELETION, key, PyNone>>)
  /\ err' = ""
  /\ trace' = Record(<<"storage.delitem", key>>)
  /\ inRow' = 0 /\ firstCompact' = NoFile
  /\ UNCHANGED <<disk, side, pc, impl, db, stats, todo, exit, ref, openKeys, preDisk,
                 openStats, overLimit, autoCompactions, compacted, flushed, fd, gen, ret, heap>>

\* DictStorage.clear(key): the key it is given is not used
DictStorage_clear(key) ==
  /\ pc = "open" /\ Room
  /\ MayCall(<<"storage.clear", key>>)
  /\ log' = Append(log, <<CLEAR, PyStr(<<>>), PyNone>>)
  /\ err' = ""
  /\ trace' = Record(<<"storage.clear", key>>)
  /\ inRow' = 0 /\ firstCompact' = NoFile
  /\ UNCHANGED <<disk, side, pc, impl, db, stats, todo, exit, ref, openKeys, preDisk,
                 openStats, overLimit, autoCompactions, compacted, flushed, fd, gen, ret, heap>>

\* DictStorage.commit that does not replace the queue
DictStorage_commit_keep ==
  /\ pc = "open"
  /\ MayCall(<<"storage.commit">>)
  /\ disk' = appendlog(disk, DerefLog(log))
  /\ log' = log
  /\ flushed' = log
  /\ err' = ""
  /\ trace' = Record(<<"storage.commit">>)
  /\ inRow' = 0 /\ firstCompact' = NoFile
  /\ UNCHANGED <<side, pc, impl, db, stats, todo, exit, ref, openKeys, preDisk,
                 openStats, overLimit, autoCompactions, compacted, fd, gen, ret, heap>>

\* DictStorage.commit called on the storage of the session: appendlog is
\* handed the queue, then the queue is replaced by an empty list
DictStorage_commit ==
  /\ pc = "open"
  /\ MayCall(<<"storage.commit">>)
  /\ disk' = appendlog(disk, DerefLog(log))
  /\ log' = <<>>
  /\ flushed' = log
  /\ err' = ""
  /\ trace' = Record(<<"storage.commit">>)
  /\ inRow' = 0 /\ firstCompact' = NoFile
  /\ UNCHANGED <<side, pc, impl, db, stats, todo, exit, ref, openKeys, preDisk,
                 openStats, overLimit, autoCompactions, compacted, fd, gen, ret, heap>>

\* ------------------------------------------------------------- db_size
\* DictDB.db_size / SetDB.db_size: the view calls DictStorage.db_size, which
\* calls self._driver.db_size(); FilesystemDriver defines no such method, so
\* the attribute lookup raises AttributeError
db_size ==
  /\ pc = "open"
  /\ MayCall(<<"db_size">>)
  /\ err' = "AttributeError"
  /\ trace' = Record(<<"db_size">>)
  /\ UNCHANGED <<disk, side, pc, impl, db, log, stats, todo, exit, fd, gen, ret, heap>>
  /\ UNCHANGED history

\* ----------------------------------------------------------- compaction
\* compact() opening the live path instead of the side path
compact_begin_inplace ==
  /\ pc = "open"
  /\ todo' = DOMAIN db
  /\ disk' = <<write_header(driver_block)>>
  /\ pc' = "compacting"
  /\ preDisk' = disk
  /\ err' = ""
  /\ compacted' = TRUE
  /\ UNCHANGED <<side, impl, db, log, stats, exit, ref, openKeys, openStats, overLimit,
                 autoCompactions, inRow, firstCompact, flushed>>
  /\ UNCHANGED aux

\* DictDB.compact / SetDB.compact called by the caller: DictStorage.compact
\* hands the items of the snapshot to FilesystemDriver.compact, which opens
\* the side file for writing and writes the header
compact_begin ==
  /\ pc = "open"
  /\ todo' = DOMAIN db
  /\ side' = <<write_header(driver_block)>>
  /\ pc' = "compacting"
  /\ preDisk' = disk
  /\ err' = ""
  /\ compacted' = TRUE
  /\ UNCHANGED <<disk, impl, db, log, stats, exit, ref, openKeys, openStats, overLimit,
                 autoCompactions, inRow, firstCompact, flushed>>
  /\ UNCHANGED aux

\* the order in which dict.items() / iterating a set lists the keys: fixed
\* by the hash table for a given set of keys
NextItem(keys) == CHOOSE k \in keys : TRUE

\* compact() writing with the block format of the oldest release
compact_write_v1 ==
  /\ pc \in {"compacting", "autocompacting"}
  /\ todo # {}
  /\ \E key \in {NextItem(todo)} :
       /\ side' = Append(side, write_entry(V1, VALUE, key, Deref(db[key])))
       /\ todo' = todo \ {key}
  /\ UNCHANGED <<disk, pc, impl, db, log, stats, err, exit>>
  /\ UNCHANGED history
  /\ UNCHANGED aux

\* one turn of the loop of FilesystemDriver.compact: the next item of the
\* snapshot is written to the side file
compact_write ==
  /\ pc \in {"compacting", "autocompacting"}
  /\ todo # {}
  /\ \E key \in {NextItem(todo)} :
       /\ side' = Append(side, write_entry(driver_block, VALUE, key, Deref(db[key])))
       /\ todo' = todo \ {key}
  /\ UNCHANGED <<disk, pc, impl, db, log, stats, err, exit>>
  /\ UNCHANGED history
  /\ UNCHANGED aux

\* compact() that forgets to reset the statistics
compact_rename_keeps_stats ==
  /\ pc \in {"compacting", "autocompacting"}
  /\ todo = {}
  /\ disk' = side
  /\ side' = NoFile
  /\ stats' = stats
  /\ pc' = "open"
  /\ autoCompactions' = IF pc = "autocompacting" THEN autoCompactions + 1
                        ELSE autoCompactions
  /\ UNCHANGED openKeys
  /\ preDisk' = NoFile
  /\ inRow' = IF inRow < 2 THEN inRow + 1 ELSE inRow
  /\ firstCompact' = IF inRow = 0 THEN side ELSE firstCompact
  /\ UNCHANGED <<impl, db, log, todo, err, exit, ref, openStats, overLimit, compacted,
                 flushed>>
  /\ ret' = ReturnedStats(stats)
  /\ UNCHANGED <<fd, gen, heap, trace>>

\* compact() returning the statistics it has just reset
compact_rename_returns_reset ==
  /\ pc \in {"compacting", "autocompacting"}
  /\ todo = {}
  /\ disk' = side
  /\ side' = NoFile
  /\ stats' = ZeroStats
  /\ pc' = "open"
  /\ autoCompactions' = IF pc = "autocompacting" THEN autoCompactions + 1
                        ELSE autoCompactions
  /\ UNCHANGED openKeys
  /\ preDisk' = NoFile
  /\ inRow' = IF inRow < 2 THEN inRow + 1 ELSE inRow
  /\ firstCompact' = IF inRow = 0 THEN side ELSE firstCompact
  /\ UNCHANGED <<impl, db, log, todo, err, exit, ref, openStats, overLimit, compacted,
                 flushed>>
  /\ ret' = ReturnedStats(ZeroStats)
  /\ UNCHANGED <<fd, gen, heap, trace>>

\* compact() copying the side file onto the live path instead of renaming it
compact_rename_copy ==
  /\ pc \in {"compacting", "autocompacting"}
  /\ todo = {}
  /\ disk' = side
  /\ side' = side
  /\ stats' = ZeroStats
  /\ pc' = "open"
  /\ autoCompactions' = IF pc = "autocompacting" THEN autoCompactions + 1
                        ELSE autoCompactions
  /\ UNCHANGED openKeys
  /\ preDisk' = NoFile
  /\ inRow' = IF inRow < 2 THEN inRow + 1 ELSE inRow
  /\ firstCompact' = IF inRow = 0 THEN side ELSE firstCompact
  /\ UNCHANGED <<impl, db, log, todo, err, exit, ref, openStats, overLimit, compacted,
                 flushed>>
  /\ ret' = ReturnedStats(stats)
  /\ UNCHANGED <<fd, gen, heap, trace>>

\* the end of FilesystemDriver.compact and of DictStorage.compact: the side
\* file is closed and renamed onto the live path, the statistics are reset
\* and the statistics as they were are returned through the view's compact()
compact_rename ==
  /\ pc \in {"compacting", "autocompacting"}
  /\ todo = {}
  /\ disk' = side
  /\ side' = NoFile
  /\ stats' = ZeroStats
  /\ pc' = "open"
  /\ autoCompactions' = IF pc = "autocompacting" THEN autoCompactions + 1
                        ELSE autoCompactions
  /\ UNCHANGED openKeys
  /\ preDisk' = NoFile
  /\ inRow' = IF inRow < 2 THEN inRow + 1 ELSE inRow
  /\ firstCompact' = IF inRow = 0 THEN side ELSE firstCompact
  /\ UNCHANGED <<impl, db, log, todo, err, exit, ref, openStats, overLimit, compacted,
                 flushed>>
  /\ ret' = ReturnedStats(stats)
  /\ UNCHANGED <<fd, gen, heap, trace>>

\* ------------------------------------------------------ end of a session
\* the caller's scope ends normally: open_database resumes after the yield
\* and calls storage.commit()
exit_normal ==
  /\ pc = "open"
  /\ trace # NoTrace \/ heap # EmptyHeap \/ log = <<>>
       \/ Entries(disk) + Len(log) <= MaxEntries
  /\ disk' = appendlog(disk, DerefLog(log))
  /\ pc' = "closed"
  /\ exit' = "normal"
  /\ impl' = "" /\ db' = EmptyDict /\ log' = <<>> /\ stats' = NoStats /\ todo' = {}
  /\ err' = ""
  /\ preDisk' = NoFile /\ openStats' = NoStats /\ overLimit' = FALSE
  /\ autoCompactions' = 0 /\ inRow' = 0 /\ firstCompact' = NoFile
  /\ compacted' = FALSE /\ flushed' = log
  /\ ref' = EmptyDict /\ openKeys' = {}
  /\ heap' = EmptyHeap
  /\ ret' = NoReturn
  /\ UNCHANGED <<side, fd, gen, trace>>

\* the caller's scope ends with an exception: it is thrown into the
\* generator at the yield, which has no handler, so commit() is not reached
exit_exception ==
  /\ pc = "open"
  /\ pc' = "closed"
  /\ exit' = "exception"
  /\ impl' = "" /\ db' = EmptyDict /\ log' = <<>> /\ stats' = NoStats /\ todo' = {}
  /\ err' = ""
  /\ preDisk' = NoFile /\ openStats' = NoStats /\ overLimit' = FALSE
  /\ autoCompactions' = 0 /\ inRow' = 0 /\ firstCompact' = NoFile
  /\ compacted' = FALSE /\ flushed' = <<>>
  /\ ref' = EmptyDict /\ openKeys' = {}
  /\ heap' = EmptyHeap
  /\ ret' = NoReturn
  /\ UNCHANGED <<disk, side, fd, gen, trace>>

\* the process is interrupted: memory is lost, the files stay as they are
crash ==
  /\ pc \in {"open", "compacting", "autocompacting"}
  /\ pc' = "closed"
  /\ exit' = IF pc = "open" THEN "crash" ELSE "crash_compacting"
  /\ impl' = "" /\ db' = EmptyDict /\ log' = <<>> /\ stats' = NoStats /\ todo' = {}
  /\ err' = ""
  /\ openStats' = NoStats /\ overLimit' = FALSE
  /\ autoCompactions' = 0 /\ inRow' = 0 /\ firstCompact' = NoFile
  /\ compacted' = FALSE /\ flushed' = <<>>
  /\ ref' = EmptyDict /\ openKeys' = {} /\ preDisk' = NoFile
  /\ side' = IF side = NoFile THEN NoFile ELSE Stale
  /\ heap' = EmptyHeap
  /\ ret' = NoReturn
  /\ UNCHANGED <<disk, fd, gen, trace>>

\* the lines of a file that have their line end: all but a last line that
\* was cut short
WholeLines(f) ==
  IF f # <<>> /\ f[Len(f)][Len(f[Len(f)])] # DELIM THEN SubSeq(f, 1, Len(f) - 1) ELSE f

\* the process is interrupted inside appendlog: the header, when one was
\* due, and whole of the first lines of the queue have reached the file, and
\* cut bytes of the line after them
commit_interrupted ==
  /\ pc = "open" /\ log # <<>>
  /\ heap = EmptyHeap
  /\ Entries(disk) + Len(log) <= MaxEntries
  /\ WholeLines(Content(disk)) = Content(disk)
  /\ \E new \in {appendlog_lines(disk, log)} :
       \E whole \in (Len(new) - Len(log))..(Len(new) - 1) :
         \E cut \in 0..(Len(new[whole + 1]) - 1) :
           disk' = Appended(Content(disk),
                            SubSeq(new, 1, whole)
                              \o (IF cut = 0 THEN <<>>
                                  ELSE <<SubSeq(new[whole + 1], 1, cut)>>))
  /\ pc' = "closed"
  /\ exit' = "crash_commit"
  /\ impl' = "" /\ db' = EmptyDict /\ log' = <<>> /\ stats' = NoStats /\ todo' = {}
  /\ err' = ""
  /\ openStats' = NoStats /\ overLimit' = FALSE
  /\ autoCompactions' = 0 /\ inRow' = 0 /\ firstCompact' = NoFile
  /\ compacted' = FALSE /\ flushed' = <<>>
  /\ ref' = EmptyDict /\ openKeys' = {} /\ preDisk' = NoFile
  /\ ret' = NoReturn
  /\ UNCHANGED <<side, fd, gen, heap, trace>>

ViewClasses == {"DictDB", "SetDB"}

Limits == 0..MaxLimit

\* sessions on the map view
Next ==
  \/ \E l \in Limits : open_database_fail("DictDB", l)
  \/ \E l \in Limits : open_database_yield("DictDB", l)
  \/ \E l \in Limits : open_database_compact("DictDB", l)
  \/ \E key \in Keys, data \in Values : DictDB_setitem(key, data)
  \/ \E key \in Keys : DictDB_delitem(key)
  \/ DictDB_clear
  \/ compact_begin
  \/ compact_write
  \/ compact_rename
  \/ exit_normal
  \/ exit_exception
  \/ crash

Spec == Init /\ [][Next]_vars

\* sessions on the map view whose commit may be interrupted
NextTorn == commit_interrupted \/ Next

SpecTorn == Init /\ [][NextTorn]_vars

\* sessions on the map view with every method DictDB overrides
NextMap ==
  \/ DictDB_popitem
  \/ \E key \in Keys, has_default \in BOOLEAN : DictDB_pop(key, has_default)
  \/ \E positional \in BOOLEAN : DictDB_setdefault(positional)
  \/ \E positional \in BOOLEAN : DictDB_update(positional)
  \/ Next

SpecMap == Init /\ [][NextMap]_vars

\* sessions on the set view
NextSet ==
  \/ \E l \in Limits : open_database_fail("SetDB", l)
  \/ \E l \in Limits : open_database_yield("SetDB", l)
  \/ \E l \in Limits : open_database_compact("SetDB", l)
  \/ \E key \in Keys : SetDB_add(key)
  \/ \E key \in Keys : SetDB_remove(key)
  \/ compact_begin
  \/ compact_write
  \/ compact_rename
  \/ exit_normal
  \/ exit_exception
  \/ crash

SpecSet == Init /\ [][NextSet]_vars

\* sessions on the set view in which the caller also pops members
NextSetPop == SetDB_pop \/ NextSet

SpecSetPop == Init /\ [][NextSetPop]_vars

\* sessions on either view, one after the other on the same store
NextViews == Next \/ NextSet

SpecViews == Init /\ [][NextViews]_vars

\* sessions on either view in which the caller also asks for the size
NextSize == db_size \/ NextViews

SpecSize == Init /\ [][NextSize]_vars

\* sessions on the map view in which the caller sets, deletes and compacts
NextPending ==
  \/ \E l \in Limits : open_database_fail("DictDB", l)
  \/ \E l \in Limits : open_database_yield("DictDB", l)
  \/ \E l \in Limits : open_database_compact("DictDB", l)
  \/ \E key \in Keys, data \in Values : DictDB_setitem(key, data)
  \/ \E key \in Keys : DictDB_delitem(key)
  \/ compact_begin
  \/ compact_write
  \/ compact_rename
  \/ exit_normal
  \/ exit_exception

SpecPending == Init /\ [][NextPending]_vars

\* sessions in which the caller works on the storage engine of the view
NextStorage ==
  \/ \E l \in Limits : open_database_fail("DictDB", l)
  \/ \E l \in Limits : open_database_yield("DictDB", l)
  \/ \E key \in Keys, val \in Values : DictStorage_setitem(key, val)
  \/ \E key \in Keys : DictStorage_delitem(key)
  \/ \E key \in Keys : DictStorage_clear(key)
  \/ DictStorage_commit
  \/ exit_normal
  \/ exit_exception

SpecStorage == Init /\ [][NextStorage]_vars

\* sessions in which the caller works on the storage engine and compacts
NextStats ==
  \/ \E l \in Limits : open_database_compact("DictDB", l)
  \/ compact_begin
  \/ compact_write
  \/ compact_rename
  \/ \E l \in Limits : open_database_fail("DictDB", l)
  \/ \E l \in Limits : open_database_yield("DictDB", l)
  \/ DictStorage_setitem(PyStr(<<"a">>), PyInt(<<"1">>))
  \/ DictStorage_delitem(PyStr(<<"a">>))
  \/ DictStorage_clear(PyStr(<<"a">>))
  \/ DictStorage_commit
  \/ exit_normal
  \/ exit_exception

SpecStats == Init /\ [][NextStats]_vars

\* before the first open_database: no session, no side file, no history
Idle ==
  /\ side = NoFile
  /\ pc = "closed"
  /\ NoSession
  /\ err = ""
  /\ exit = "none"
  /\ ref = EmptyDict
  /\ openKeys = {}
  /\ preDisk = NoFile
  /\ openStats = NoStats
  /\ overLimit = FALSE
  /\ autoCompactions = 0
  /\ inRow = 0
  /\ firstCompact = NoFile
  /\ compacted = FALSE
  /\ flushed = <<>>
  /\ fd = "none"
  /\ gen = NoYielder
  /\ ret = NoReturn
  /\ heap = EmptyHeap

\* the documented scenario: a run on an empty store that keeps the trace of
\* the caller's calls; the caller catches what a call raises and goes on
InitScenario ==
  /\ disk = NoFile
  /\ Idle
  /\ trace = <<>>

NextScenario ==
  \/ open_database_yield("DictDB", compaction_limit_default)
  \/ \E c \in ScriptCalls("setitem") : DictDB_setitem(c[2], c[3])
  \/ \E c \in ScriptCalls("delitem") : DictDB_delitem(c[2])
  \/ DictDB_clear
  \/ exit_normal

SpecScenario == InitScenario /\ [][NextScenario]_vars

\* ------------------------------------------------ sessions with lists
\* what the caller of a session with lists stores under a key: a number or
\* a list object it holds
ListData == Values \cup {PyRef(o) : o \in DOMAIN heap}

InitLists == disk = NoFile /\ Idle /\ trace = NoTrace

NextLists ==
  \/ open_database_yield("DictDB", compaction_limit_default)
  \/ NewList
  \/ \E key \in Keys, data \in ListData : DictDB_setitem(key, data)
  \/ \E key \in Keys, data \in Values : DictDB_list_append(key, data)
  \/ \E key \in Keys, data \in Values : DictDB_list_remove(key, data)
  \/ exit_normal
  \/ exit_exception

SpecLists == InitLists /\ [][NextLists]_vars

\* ------------------------------------------- files found at the path
\* a line as the block format of that version lays it out, with the given
\* text for the value
EntryLine(version, op, key, payload) ==
  IF version = V1
    THEN op \o <<SPACE>> \o StrOfInt(Len(dump_key(V1, key))) \o <<SPACE>>
            \o dump_key(V1, key) \o <<SPACE>> \o payload \o <<DELIM>>
    ELSE op \o <<SPACE>> \o dump_key(V2, key) \o <<SPACE>> \o payload \o <<DELIM>>

\* an operation tag DictStorage does not know
UnknownOp == <<"?">>

\* a value text json.loads rejects
Malformed == <<"{">>

\* lines a file at the path may hold: entries of either block format, an
\* entry with an unknown operation, one with a malformed value, and a line
\* that is no entry
FoundLines ==
  UNION {{ write_entry(v, VALUE, PyStr(<<"a">>), PyInt(<<"1">>)),
           write_entry(v, VALUE, PyStr(<<"b">>), PyInt(<<"2">>)),
           write_entry(v, DELETION, PyStr(<<"a">>), PyNone),
           write_entry(v, CLEAR, PyStr(<<>>), PyNone),
           write_entry(v, UnknownOp, PyStr(<<"a">>), PyInt(<<"1">>)),
           EntryLine(v, VALUE, PyStr(<<"a">>), Malformed) } : v \in block_formats}
  \cup {<<"+", DELIM>>}

\* header lines: the two known versions and one no release has written
FoundHeaders == {write_header(V1), write_header(V2), write_header("3.0")}

\* the files open_database may find: a header and up to MaxEntries lines
FoundFiles ==
  {<<h>> \o body : h \in FoundHeaders,
                   body \in UNION {[1..n -> FoundLines] : n \in 0..MaxEntries}}

InitFound ==
  /\ disk \in FoundFiles
  /\ Idle
  /\ trace = NoTrace

\* sessions that open a found file and close it again
NextFound ==
  \/ \E l \in Limits : open_database_fail("DictDB", l)
  \/ \E cls \in ViewClasses, l \in Limits : open_database_yield(cls, l)
  \/ \E cls \in ViewClasses, l \in Limits : open_database_compact(cls, l)
  \/ compact_write
  \/ compact_rename
  \/ exit_normal
  \/ exit_exception

SpecFound == InitFound /\ [][NextFound]_vars

\* --------------------------------------------------------- BlockYielder
\* the most readblocks() calls a caller makes on one yielder
MaxCalls == 2

\* what the steps on a yielder leave alone
session == <<side, pc, impl, db, log, stats, todo, exit, ret, heap, trace>>

\* FilesystemDriver.createyielder returning: the file is open, its header
\* line is read, BlockYielder.__init__ keeps the block format and the file
createyielder_returns ==
  /\ pc = "closed" /\ gen = NoYielder
  /\ ret = NoReturn
  /\ \E y \in {createyielder(Content(disk))} :
       /\ y.err = ""
       /\ gen' = [block |-> y.version, rest |-> y.lines, file |-> "fd", it |-> "none",
                  out |-> <<>>, raised |-> "", calls |-> 0]
  /\ disk' = Content(disk)
  /\ fd' = "open"
  /\ err' = ""
  /\ UNCHANGED session
  /\ UNCHANGED history

\* FilesystemDriver.createyielder raising on the header it read: no yielder
\* is made and no code closes the file
createyielder_raises ==
  /\ pc = "closed" /\ gen = NoYielder
  /\ ret = NoReturn
  /\ \E y \in {createyielder(Content(disk))} :
       /\ y.err # ""
       /\ err' = y.err
  /\ disk' = Content(disk)
  /\ fd' \in {"open", "closed"}
  /\ UNCHANGED gen
  /\ UNCHANGED session
  /\ UNCHANGED history

\* BlockYielder.readblocks called: a generator is made, none of its body
\* runs before the first next()
BlockYielder_readblocks ==
  /\ gen # NoYielder /\ gen.it \in {"none", "done"}
  /\ gen.calls < MaxCalls
  /\ gen' = [gen EXCEPT !.it = "new", !.raised = "", !.calls = @ + 1]
  /\ err' = ""
  /\ UNCHANGED <<disk, fd>>
  /\ UNCHANGED session
  /\ UNCHANGED history

\* a readblocks whose try has no finally
readblocks_finally_skip(g) == g

\* the finally of readblocks: self._fd.close(); self._fd = None
readblocks_finally(g) == [g EXCEPT !.file = "None"]

\* the handle after the finally of readblocks on the yielder g
ClosedBy(g) == IF g.file = "None" THEN "closed" ELSE fd

\* next() on a generator whose yielder has no file: the first statement of
\* readblocks raises
next_not_open ==
  /\ gen.it = "new" /\ gen.file = "None"
  /\ gen' = [gen EXCEPT !.it = "done", !.raised = "Exception: file not open"]
  /\ err' = "Exception: file not open"
  /\ UNCHANGED <<disk, fd>>
  /\ UNCHANGED session
  /\ UNCHANGED history

\* next(): the file has a next line and load_entry decodes it; the triple
\* is yielded and the generator is suspended inside the try
next_yields ==
  /\ gen.it \in {"new", "suspended"} /\ gen.file = "fd"
  /\ gen.rest # <<>>
  /\ \E e \in {load_entry(gen.block, Head(gen.rest))} :
       /\ e.err = ""
       /\ gen' = [gen EXCEPT !.it = "suspended", !.rest = Tail(@), !.raised = "",
                             !.out = Append(@, <<e.op, e.key, e.value>>)]
  /\ err' = ""
  /\ UNCHANGED <<disk, fd>>
  /\ UNCHANGED session
  /\ UNCHANGED history

\* next(): load_entry raises on the next line; the finally runs and the
\* exception leaves the generator
next_decode_raises ==
  /\ gen.it \in {"new", "suspended"} /\ gen.file = "fd"
  /\ gen.rest # <<>>
  /\ \E e \in {load_entry(gen.block, Head(gen.rest))} :
       /\ e.err # ""
       /\ \E g \in {readblocks_finally([gen EXCEPT !.it = "done", !.rest = Tail(@),
                                                   !.raised = e.err])} :
            /\ gen' = g
            /\ fd' = ClosedBy(g)
       /\ err' = e.err
  /\ UNCHANGED disk
  /\ UNCHANGED session
  /\ UNCHANGED history

\* next(): the file has no line left; the for loop ends, the finally runs
\* and the generator raises StopIteration
next_exhausted ==
  /\ gen.it \in {"new", "suspended"} /\ gen.file = "fd"
  /\ gen.rest = <<>>
  /\ \E g \in {readblocks_finally([gen EXCEPT !.it = "done",
                                              !.raised = "StopIteration"])} :
       /\ gen' = g
       /\ fd' = ClosedBy(g)
  /\ err' = ""
  /\ UNCHANGED disk
  /\ UNCHANGED session
  /\ UNCHANGED history

\* the caller gives up a generator before its end (close(), or its last
\* reference goes): GeneratorExit is raised at the yield and the finally
\* runs; a generator that was never started has nothing to run
generator_close ==
  /\ gen.it \in {"new", "suspended"}
  /\ \E g \in {IF gen.it = "suspended"
                 THEN readblocks_finally([gen EXCEPT !.it = "done", !.raised = ""])
                 ELSE [gen EXCEPT !.it = "done", !.raised = ""]} :
       /\ gen' = g
       /\ fd' = ClosedBy(g)
  /\ err' = ""
  /\ UNCHANGED disk
  /\ UNCHANGED session
  /\ UNCHANGED history

\* a caller of the driver that makes a yielder on a found file and reads it
NextYielder ==
  \/ createyielder_returns
  \/ createyielder_raises
  \/ BlockYielder_readblocks
  \/ next_not_open
  \/ next_yields
  \/ next_decode_raises
  \/ next_exhausted
  \/ generator_close

SpecYielder == InitFound /\ [][NextYielder]_vars

\* files that hold the header of a block format and one line written by
\* the write_entry of that format
CodecFiles ==
  {<<write_header(v), write_entry(v, op, key, val)>> :
     v \in block_formats, op \in {VALUE, DELETION, CLEAR},
     key \in Keys \cup {PyStr(<<>>)}, val \in Values \cup {PyNone}}

InitCodec ==
  /\ disk \in CodecFiles
  /\ Idle
  /\ trace = NoTrace

\* a caller of the driver that reads back what write_entry wrote
NextCodec ==
  \/ createyielder_returns
  \/ BlockYielder_readblocks
  \/ next_yields
  \/ next_exhausted

SpecCodec == InitCodec /\ [][NextCodec]_vars

\* ------------------------------------------------- src/tvdb/database.py
\* In the tvdb edition the driver holds the pending log and the view holds
\* the cache; the same variables hold them: log is FilesystemDriver._log,
\* db is Database._cache (a SetDatabase member maps to None), disk is the
\* file, which has no header line, impl is the view class.
PUT == <<"+">>

REMOVE == <<"-">>

\* identifiers a caller hands to the tvdb views
Identifiers == Keys \cup {PyStr(<<"b", DELIM, "c">>)}

\* FilesystemDriver._validate_identifier: the exception it raises, "" for none
validate_identifier(ident) ==
  IF \E i \in 1..Len(ident.v) : ident.v[i] = SPACE
    THEN "Exception: identifier may not contain a space"
  ELSE IF \E i \in 1..Len(ident.v) : ident.v[i] = DELIM
    THEN "Exception: identifier may not contain a newline"
  ELSE ""

\* the line FilesystemDriver._flush_log writes for an entry of the log
flush_line(e) == e[1] \o <<SPACE>> \o e[2].v \o <<SPACE>> \o json_dump(e[3]) \o <<DELIM>>

\* FilesystemDriver._flush_log: what the file holds after it
flush_log(f, l) == Content(f) \o [i \in 1..Len(l) |-> flush_line(l[i])]

\* the loop of FilesystemDriver.read_dict over the lines of the file
RECURSIVE read_dict_loop(_, _)
read_dict_loop(lines, data) ==
  IF lines = <<>> THEN [err |-> "", data |-> data]
  ELSE
    LET parts == Split(Head(lines), SPACE, 2)
    IN  IF Len(parts) # 3 THEN [err |-> "ValueError", data |-> EmptyDict]
        ELSE IF parts[1] = REMOVE
          THEN read_dict_loop(Tail(lines), DictDel(data, PyStr(parts[2])))
        ELSE IF parts[1] = PUT
          THEN read_dict_loop(Tail(lines), DictSet(data, PyStr(parts[2]), parts[3]))
        ELSE [err |-> "Exception: unknown operation", data |-> EmptyDict]

\* FilesystemDriver.read_dict
read_dict(lines) ==
  LET r == read_dict_loop(lines, EmptyDict)
  IN  [err |-> r.err, data |-> [k \in DOMAIN r.data |-> json_load(r.data[k])]]

\* the cache the view class builds (Database.__init__, SetDatabase.__init__)
Cache(database, data) ==
  IF database = "SetDatabase" THEN [k \in DOMAIN data |-> PyNone] ELSE data

\* what the tvdb steps leave alone
untouched == <<side, stats, todo, ref, openKeys, preDisk, openStats, overLimit,
               autoCompactions, inRow, firstCompact, compacted, flushed, fd, gen, ret,
               heap, trace>>

\* the driver's log may take one more entry
LogRoom == Len(log) < MaxLog /\ Len(Content(disk)) + Len(log) < MaxEntries

\* tvdb's open_database up to the yield: driver.open() creates the file,
\* the view class reads it
tvdb_open_database(database) ==
  /\ pc = "closed"
  /\ disk' = Content(disk)
  /\ \E r \in {read_dict(Content(disk))} :
       IF r.err = ""
         THEN /\ pc' = "open" /\ impl' = database
              /\ db' = Cache(database, r.data)
              /\ err' = "" /\ exit' = "none"
         ELSE /\ pc' = "closed" /\ impl' = ""
              /\ db' = EmptyDict
              /\ err' = r.err /\ exit' = "openfailed"
  /\ log' = <<>>
  /\ UNCHANGED untouched

\* FilesystemDriver.put / remove: the identifier is validated, then the
\* entry is put on the log
driver_log(entry) ==
  IF validate_identifier(entry[2]) = ""
    THEN /\ LogRoom
         /\ log' = Append(log, entry)
         /\ err' = ""
    ELSE /\ log' = log
         /\ err' = validate_identifier(entry[2])

\* Database.put: the cache is written, then the driver is called
Database_put(ident, data) ==
  /\ pc = "open" /\ impl = "Database"
  /\ db' = DictSet(db, ident, data)
  /\ driver_log(<<PUT, ident, data>>)
  /\ UNCHANGED <<disk, pc, impl, exit>>
  /\ UNCHANGED untouched

\* Database.remove and SetDatabase.remove: the member is deleted from the
\* cache, then the driver is called; the KeyError of a missing member is
\* swallowed, what the driver raises is not
view_remove(ident) ==
  /\ pc = "open"
  /\ IF ident \in DOMAIN db
       THEN /\ db' = DictDel(db, ident)
            /\ driver_log(<<REMOVE, ident, PyNone>>)
       ELSE /\ err' = ""
            /\ UNCHANGED <<db, log>>
  /\ UNCHANGED <<disk, pc, impl, exit>>
  /\ UNCHANGED untouched

Database_remove(ident) == impl = "Database" /\ view_remove(ident)

SetDatabase_remove(ident) == impl = "SetDatabase" /\ view_remove(ident)

\* SetDatabase.add: nothing for a member; else the cache is written, then
\* the driver is called
SetDatabase_add(ident) ==
  /\ pc = "open" /\ impl = "SetDatabase"
  /\ IF ident \in DOMAIN db
       THEN /\ err' = ""
            /\ UNCHANGED <<db, log>>
       ELSE /\ db' = DictSet(db, ident, PyNone)
            /\ driver_log(<<PUT, ident, PyNone>>)
  /\ UNCHANGED <<disk, pc, impl, exit>>
  /\ UNCHANGED untouched

\* the caller's scope ends normally: driver.commit() flushes the log and
\* closes the file
tvdb_commit ==
  /\ pc = "open"
  /\ disk' = flush_log(disk, log)
  /\ pc' = "closed" /\ exit' = "normal"
  /\ impl' = "" /\ db' = EmptyDict /\ log' = <<>> /\ err' = ""
  /\ UNCHANGED untouched

\* the caller's scope ends with an exception: driver.rollback() closes the
\* file and the log is dropped with the driver
tvdb_rollback ==
  /\ pc = "open"
  /\ pc' = "closed" /\ exit' = "exception"
  /\ impl' = "" /\ db' = EmptyDict /\ log' = <<>> /\ err' = ""
  /\ UNCHANGED disk
  /\ UNCHANGED untouched

InitTvdb == disk = NoFile /\ Idle /\ trace = NoTrace

\* sessions of the tvdb edition on either view
NextTvdb ==
  \/ \E database \in {"Database", "SetDatabase"} : tvdb_open_database(database)
  \/ \E ident \in Identifiers, data \in Values : Database_put(ident, data)
  \/ \E ident \in Identifiers : Database_remove(ident)
  \/ \E ident \in Identifiers : SetDatabase_add(ident)
  \/ \E ident \in Identifiers : SetDatabase_remove(ident)
  \/ tvdb_commit
  \/ tvdb_rollback

SpecTvdb == InitTvdb /\ [][NextTvdb]_vars

TypeOK ==
  /\ pc \in {"closed", "open", "compacting", "autocompacting"}
  /\ impl \in ViewClasses \cup {""}
  /\ Len(log) <= MaxLog \/ (heap # EmptyHeap /\ Len(log) <= MaxQueue)
  /\ DOMAIN db \subseteq Keys \cup {PyNone}

\* ------------------------------------------------------------ the steps
Compacting == pc \in {"compacting", "autocompacting"}

\* the caller's scope ends normally / with an exception
NormalExit == pc = "open" /\ pc' = "closed" /\ exit' = "normal"

ExceptionExit == pc = "open" /\ pc' = "closed" /\ exit' = "exception"

\* compact() returns
CompactReturns == Compacting /\ pc' = "open"

\* the process is interrupted during a compaction
CompactInterrupted == Compacting /\ pc' = "closed"

\* ----------------------------------------------------------------- C1
\* C1: round trip. When a map-view session in which the caller only set,
\* deleted and cleared ends normally, re-opening the store succeeds and
\* yields the snapshot a plain mapping holds after the same operations.
C1_RoundTrip ==
  [][(NormalExit /\ impl = "DictDB" /\ ~compacted)
       => \E r \in {DictStorage_read(disk')} : r.err = "" /\ r.data = ref]_vars

\* ----------------------------------------------------------------- C2
\* C2: crash atomicity of compaction. While a compaction runs and until its
\* rename, the live file is the file the compaction found; an interruption
\* leaves that file, which replays as before; the live file changes during a
\* compaction only by the rename, to the finished side file.
C2_CrashAtomicity ==
  /\ [](Compacting => disk = preDisk)
  /\ [][CompactInterrupted
         => disk' = preDisk /\ DictStorage_read(disk') = DictStorage_read(preDisk)]_vars
  /\ [][(Compacting /\ disk' # disk)
         => (todo = {} /\ pc' = "open" /\ disk' = side)]_vars

\* a compaction was interrupted after it had started the side file, on a
\* store whose log holds no-ops the compaction would have dropped
C2_Witness ==
  /\ pc = "closed" /\ exit = "crash_compacting" /\ side = Stale
  /\ DictStorage_read(disk).stats.noops > 0

\* ----------------------------------------------------------------- C3
\* C3: compaction correctness. When compact() returns, re-opening the store
\* succeeds and yields the keys and values of the snapshot the view holds.
C3_CompactKeepsSnapshot ==
  [][CompactReturns
       => \E r \in {DictStorage_read(disk')} : r.err = "" /\ View(impl, r.data) = db]_vars

\* ----------------------------------------------------------------- C4
\* C4, for the exit with an exception: no pending entry is persisted, so a
\* key the store did not hold when the view was handed out is not in the
\* store after the exit.
C4_NoPendingPersisted ==
  [][ExceptionExit
       => \A key \in Keys :
            key \in DOMAIN DictStorage_read(disk').data => key \in openKeys]_vars

\* ----------------------------------------------------------------- C5
\* C5: ordering. The view's snapshot is the caller's writes applied in program
\* order; a normal exit leaves the old file, then the header if that file was
\* empty and the queue is not, then the queued entries in queue order.
C5_Ordering ==
  /\ [](pc = "open" => db = ref)
  /\ [][NormalExit =>
          \E old \in {Content(disk)}, new \in {Content(disk')} :
            \E head \in {IF old = <<>> /\ log # <<>> THEN 1 ELSE 0} :
              /\ Len(new) = Len(old) + head + Len(log)
              /\ SubSeq(new, 1, Len(old)) = old
              /\ \A i \in 1..Len(log) :
                   new[Len(old) + head + i]
                     = V2Block_write_entry(log[i][1], log[i][2], log[i][3])]_vars

\* a normal exit has flushed a queue of two different entries
C5_Witness ==
  /\ pc = "closed" /\ exit = "normal"
  /\ Len(flushed) = 2 /\ flushed[1] # flushed[2]
  /\ Entries(disk) = 2

\* ----------------------------------------------------------------- C6
\* the version the header line of a file declares ("" for an empty file)
DeclaredVersion(f) ==
  IF Content(f) = <<>> THEN "" ELSE load_header(Strip(Content(f)[1])).version

\* keys and values an entry can carry
EntryKeys == Keys \cup {PyStr(<<>>), PyNone}

EntryValues == Values \cup {PyNone}

\* line is what the block format of that version writes for some entry
EncodedIn(version, line) ==
  \E op \in {VALUE, DELETION, CLEAR}, key \in EntryKeys, val \in EntryValues :
    line = write_entry(version, op, key, val)

\* C6: every entry line of the live file is encoded in the version its
\* header declares.
C6_OriginalCodec ==
  \A i \in 2..Len(Content(disk)) : EncodedIn(DeclaredVersion(disk), Content(disk)[i])

\* ----------------------------------------------------------------- C7
\* C7: forward migration. When a compaction of a store whose header says 1.0
\* returns, the header says 2.0, every entry is encoded with V2Block and
\* re-opening yields the snapshot the view holds.
C7_ForwardMigration ==
  [][(CompactReturns /\ DeclaredVersion(disk) = V1)
       => /\ DeclaredVersion(disk') = V2
          /\ \A i \in 2..Len(disk') : EncodedIn(V2, disk'[i])
          /\ \E r \in {DictStorage_read(disk')} :
               r.err = "" /\ View(impl, r.data) = db]_vars

\* ----------------------------------------------------------------- C8
\* open_database hands the view to the caller
HandedOut == pc \in {"closed", "autocompacting"} /\ pc' = "open"

\* C8: auto-compaction trigger. When the view is handed out and the replay
\* counted more no-ops than compaction_limit, exactly one compaction has run
\* and stats() reports no no-ops; otherwise none has run and the file holds
\* what it held before the open.
C8_AutoCompaction ==
  [][HandedOut =>
       IF overLimit'
         THEN autoCompactions' = 1 /\ ~stats'.none /\ stats'.noops = 0
         ELSE autoCompactions' = 0 /\ pc = "closed"
              /\ Content(disk') = Content(disk) /\ stats' = openStats']_vars

\* the view has just been handed out after an auto-compaction that dropped
\* no-ops
C8_Witness ==
  /\ pc = "open" /\ overLimit /\ autoCompactions = 1
  /\ log = <<>> /\ ~compacted
  /\ openStats.noops > 0 /\ stats.noops = 0

\* ----------------------------------------------------------------- C9
\* the set of lines of a file
LinesOf(f) == {Content(f)[i] : i \in 1..Len(Content(f))}

\* C9: compaction idempotence. After a compaction the statistics are all
\* zero; after two compactions in a row the file holds the lines it held
\* after the first.
C9_Idempotence ==
  /\ (pc = "open" /\ inRow >= 1) => stats = ZeroStats
  /\ (pc = "open" /\ inRow = 2)
       => LinesOf(disk) = LinesOf(firstCompact) /\ Len(disk) = Len(firstCompact)

\* two compactions in a row have run on a snapshot that holds a key
C9_Witness ==
  pc = "open" /\ inRow = 2 /\ DOMAIN db # {} /\ openStats.noops > 0

\* ---------------------------------------------------------------- C10
\* C10: when compact() returns the live file is one header followed by
\* exactly one PUT line per key of the snapshot, with the key's value (null
\* for a member of the set view), and no other line.
C10_SnapshotWritten ==
  [][CompactReturns =>
       /\ disk'[1] = write_header(V2)
       /\ Len(disk') = 1 + Cardinality(DOMAIN db)
       /\ {disk'[i] : i \in 2..Len(disk')}
            = {V2Block_write_entry(VALUE, key, db[key]) : key \in DOMAIN db}
       /\ \A i \in 2..Len(disk') : disk'[i][1] = "+"
       /\ impl = "SetDB" => \A key \in DOMAIN db : db[key] = PyNone]_vars

\* compact() has returned while the queue holds a DELETE and the snapshot a
\* key
C10_Witness ==
  /\ pc = "open" /\ inRow >= 1 /\ DOMAIN db # {}
  /\ \E i \in 1..Len(log) : log[i][1] = DELETION

\* ---------------------------------------------------------------- C11
\* C11: replay statistics, on the documented scenario. Once the calls
\* set(a,1), set(b,2), delete(a), clear(), set(c,3) have been made on a store
\* that was empty and have been committed, re-opening shows the snapshot
\* {c: 3} with deletions = 1, clears = 1 and noops = 2.
C11_Scenario ==
  (pc = "closed" /\ exit = "normal" /\ trace = Script)
    => \E r \in {DictStorage_read(disk)} :
         /\ r.err = ""
         /\ r.data = DictSet(EmptyDict, PyStr(<<"c">>), PyInt(<<"3">>))
         /\ r.stats = DictStorageStats(1, 1, 2)

\* ---------------------------------------------------------------- C12
\* C12: the handle createyielder opened is released on every exit path of
\* opening a store: once open_database has handed out the view or has
\* raised, and after the session, the handle is closed.
C12_HandleReleased ==
  (pc # "closed" \/ exit # "none") => fd = "closed"

\* ---------------------------------------------------------------- C13
\* the header of the file parses and names a version no block format has
UnknownVersion(f) ==
  /\ Content(f) # <<>>
  /\ Content(f)[1] # <<>>
  /\ \E h \in {load_header(Strip(Content(f)[1]))} :
       h.err = "" /\ h.version \notin block_formats

\* C13: opening a store whose header names an unknown version fails with
\* the unknown-version error, whatever its entries are: no view, no
\* compaction, no append, the file as it was.
C13_UnknownVersion ==
  [][(pc = "closed" /\ UnknownVersion(disk))
       => /\ pc' = "closed" /\ exit' = "openfailed"
          /\ err' = "Exception: unknown block format version"
          /\ impl' = "" /\ db' = EmptyDict /\ log' = <<>>
          /\ disk' = disk /\ side' = side]_vars

\* open_database has failed on a file of an unknown version whose first
\* entry is no entry at all
C13_Witness ==
  /\ pc = "closed" /\ exit = "openfailed"
  /\ err = "Exception: unknown block format version"
  /\ UnknownVersion(disk)
  /\ Len(disk) > 1 /\ disk[2] = <<"+", DELIM>>

\* ---------------------------------------------------------------- C14
\* the replay of f reaches line i without an error and line i decodes to an
\* entry whose operation is none of PUT, DELETE, CLEAR
UnknownOpAt(f, i) ==
  \E y \in {createyielder(SubSeq(Content(f), 1, i - 1))} :
    /\ y.err = ""
    /\ DictStorage_read_cache(y).err = ""
    /\ \E e \in {load_entry(y.version, Content(f)[i])} :
         e.err = "" /\ e.op \notin {VALUE, DELETION, CLEAR}

\* C14: opening a store whose replay meets an entry with an unknown
\* operation fails with the unknown-operation error: no snapshot, the
\* statistics as they were (none), the file as it was.
C14_UnknownOperation ==
  [][(pc = "closed" /\ \E i \in 2..Len(Content(disk)) : UnknownOpAt(disk, i))
       => /\ pc' = "closed" /\ exit' = "openfailed"
          /\ err' = "Exception: unknown operation"
          /\ impl' = "" /\ db' = EmptyDict
          /\ stats' = stats /\ stats' = NoStats
          /\ disk' = disk /\ side' = side]_vars

\* open_database has failed on a file that holds a good entry and then one
\* with an unknown operation
C14_Witness ==
  /\ pc = "closed" /\ exit = "openfailed"
  /\ err = "Exception: unknown operation"
  /\ Len(Content(disk)) = 3 /\ UnknownOpAt(disk, 3)

\* ---------------------------------------------------------------- C15
\* line i of f is a PUT whose value text is not blank and does not parse
\* (its key is one the block format reads back)
MalformedPutAt(f, i) ==
  \E y \in {createyielder(<<Content(f)[1]>>)} :
    /\ y.err = ""
    /\ \E e \in {load_entry(y.version, Content(f)[i])} :
         /\ e.err = "" /\ e.op = VALUE
         /\ Strip(e.value) # <<>> /\ ~JsonParses(e.value)
         /\ dump_key(y.version, load_key(y.version, e.key)) = e.key

\* the key of the entry in line i of f
KeyAt(f, i) ==
  LET version == createyielder(<<Content(f)[1]>>).version
  IN  load_key(version, load_entry(version, Content(f)[i]).key)

\* f with line i replaced by a PUT of a null value for the same key
Healed(f, i) ==
  [Content(f) EXCEPT
     ![i] = write_entry(createyielder(<<Content(f)[1]>>).version, VALUE, KeyAt(f, i), PyNone)]

\* C15: lenient decode. A PUT with a malformed value does not abort the
\* replay: the replay up to and including it yields the snapshot before it
\* with the key set to null and the same statistics, and the whole file
\* replays as if the entry had been a PUT of null.
C15_LenientDecode ==
  \A i \in 2..Len(Content(disk)) :
    MalformedPutAt(disk, i)
      => /\ \E before \in {DictStorage_read(SubSeq(Content(disk), 1, i - 1))},
               upto \in {DictStorage_read(SubSeq(Content(disk), 1, i))} :
              before.err = ""
                => /\ upto.err = ""
                   /\ upto.data = DictSet(before.data, KeyAt(disk, i), PyNone)
                   /\ upto.stats = before.stats
         /\ DictStorage_read(disk) = DictStorage_read(Healed(disk, i))

\* a view has been handed out on a file holding a PUT of a malformed value
\* for one key and a PUT for another: the first key maps to null, the other
\* to its value
C15_Witness ==
  /\ pc = "open" /\ impl = "DictDB" /\ log = <<>>
  /\ Len(Content(disk)) = 3 /\ MalformedPutAt(disk, 2)
  /\ db = DictSet(DictSet(EmptyDict, PyStr(<<"a">>), PyNone),
                  PyStr(<<"b">>), PyInt(<<"2">>))

\* ---------------------------------------------------------------- C16
\* C16: deleting a missing key is a silent no-op in both views. A
\* del d[key] or a remove(key) of a key the snapshot does not hold raises
\* nothing, leaves the snapshot as it is and enqueues nothing.
C16_DeleteMissing ==
  [][\A key \in Keys :
       ((DictDB_delitem(key) \/ SetDB_remove(key)) /\ key \notin DOMAIN db)
         => (err' = "" /\ db' = db /\ log' = log)]_vars

\* ---------------------------------------------------------------- C17
\* number of entries of a queue equal to that entry
CountIn(q, entry) == Cardinality({i \in 1..Len(q) : q[i] = entry})

\* number of lines of a file equal to that line
CountLines(f, line) == Cardinality({i \in 1..Len(Content(f)) : Content(f)[i] = line})

\* C17: set-view add is idempotent. add(x) of an absent x inserts x and
\* enqueues one PUT of null for x; add(x) of a member changes neither the
\* snapshot nor the queue. So the queue never holds two PUTs for a key with
\* no DELETE of it between them, and a normal exit appends exactly one PUT
\* line for a key that was added, however often, and not removed.
C17_AddIdempotent ==
  /\ [][\A key \in Keys :
          SetDB_add(key)
            => IF key \in DOMAIN db
                 THEN db' = db /\ log' = log
                 ELSE /\ db' = DictSet(db, key, PyNone)
                      /\ log' = Append(log, setitem(key, PyNone))]_vars
  /\ [](impl = "SetDB"
          => \A i, j \in 1..Len(log) :
               (i < j /\ log[i][1] = VALUE /\ log[j] = log[i])
                 => \E k \in (i + 1)..(j - 1) : log[k] = delitem(log[i][2]))
  /\ [][(NormalExit /\ impl = "SetDB")
          => \A key \in Keys :
               (key \in DOMAIN db /\ key \notin openKeys
                  /\ CountIn(log, delitem(key)) = 0)
                 => CountLines(disk', V2Block_write_entry(VALUE, key, PyNone))
                      = CountLines(disk, V2Block_write_entry(VALUE, key, PyNone)) + 1]_vars

\* in a set-view session x has been added to a store that did not hold it:
\* x is a member and the queue holds its one PUT (add(x) is enabled again)
C17_Witness ==
  /\ pc = "open" /\ impl = "SetDB"
  /\ PyStr(<<"a">>) \in DOMAIN db /\ PyStr(<<"a">>) \notin openKeys
  /\ log = <<setitem(PyStr(<<"a">>), PyNone)>>

\* ---------------------------------------------------------------- C18
\* C18: in the mutating map-view methods the storage engine is called
\* before the snapshot is mutated, so a call changes the snapshot only when
\* the storage engine has taken its entry: no step of a session changes the
\* snapshot without the queue having grown by one.
C18_StorageFirst ==
  [][(pc = "open" /\ pc' = "open" /\ impl = "DictDB" /\ db' # db)
       => Len(log') = Len(log) + 1]_vars

\* ---------------------------------------------------------------- C19
\* C19: the batch operations of the map view are rejected. A call of
\* update, setdefault or popitem raises and leaves the snapshot and the
\* queue as they were.
C19_BatchRejected ==
  [][(\/ DictDB_popitem
      \/ \E positional \in BOOLEAN : DictDB_setdefault(positional)
      \/ \E positional \in BOOLEAN : DictDB_update(positional))
       => (err' # "" /\ db' = db /\ log' = log)]_vars

\* C20: list_append(key, x) on a key that is absent or holds a sequence
\* enqueues exactly one PUT for key whose value is the sequence stored
\* before with x appended at the end; afterwards the snapshot holds that
\* sequence under key and the value of every other key is what it was.
C20_ListAppend ==
  [][\A key \in Keys, data \in Values :
       (/\ DictDB_list_append(key, data)
        /\ key \in DOMAIN db => db[key].t \in {"ref", "list"})
       => \E after \in {PyList(Append(GetItems(key), data))} :
            /\ Len(log') = Len(log) + 1
            /\ log'[Len(log')][1] = VALUE
            /\ log'[Len(log')][2] = key
            /\ DerefIn(heap', log'[Len(log')][3]) = after
            /\ key \in DOMAIN db'
            /\ DerefIn(heap', db'[key]) = after
            /\ \A k \in Keys \ {key} :
                 /\ k \in DOMAIN db' <=> k \in DOMAIN db
                 /\ k \in DOMAIN db => DerefIn(heap', db'[k]) = Deref(db[k])]_vars

\* ---------------------------------------------------------------- C21
\* the positions of xs that hold something other than x
Kept(xs, x) == {i \in 1..Len(xs) : xs[i] # x}

\* xs with every element equal to x taken out, the rest in their order
Without(xs, x) ==
  [j \in 1..Cardinality(Kept(xs, x)) |->
     xs[CHOOSE i \in Kept(xs, x) : Cardinality({k \in Kept(xs, x) : k < i}) = j - 1]]

\* C21: list_remove(key, x) on a key that is absent or holds a sequence
\* does not raise and enqueues exactly one PUT for key, whose value is the
\* sequence stored before (empty for an absent key) without the elements
\* equal to x, the others in their order; afterwards the snapshot holds
\* that sequence under key.
C21_ListRemove ==
  [][\A key \in Keys, data \in Values :
       (/\ DictDB_list_remove(key, data)
        /\ key \in DOMAIN db => db[key].t \in {"ref", "list"})
       => \E after \in {PyList(Without(GetItems(key), data))} :
            /\ err' = ""
            /\ Len(log') = Len(log) + 1
            /\ SubSeq(log', 1, Len(log)) = log
            /\ log'[Len(log')][1] = VALUE
            /\ log'[Len(log')][2] = key
            /\ DerefIn(heap', log'[Len(log')][3]) = after
            /\ key \in DOMAIN db'
            /\ DerefIn(heap', db'[key]) = after]_vars

\* the store held [1, 2] under a when the session began and the session's
\* only call has been list_remove(a, 1): the queue is one PUT of a list
\* object that holds [2]
C21_Witness ==
  /\ pc = "open" /\ impl = "DictDB"
  /\ \E r \in {DictStorage_read(disk)} :
       /\ r.err = ""
       /\ PyStr(<<"a">>) \in DOMAIN r.data
       /\ r.data[PyStr(<<"a">>)] = PyList(<<PyInt(<<"1">>), PyInt(<<"2">>)>>)
  /\ DOMAIN heap = {1}
  /\ heap[1] = <<PyInt(<<"2">>)>>
  /\ log = <<setitem(PyStr(<<"a">>), PyRef(1))>>
  /\ db[PyStr(<<"a">>)] = PyRef(1)

\* ---------------------------------------------------------------- C22
\* C22: db_size() on a map or set view returns the size the driver reports
\* for the file: the call does not raise and leaves the snapshot, the
\* queue and the files as they are.
C22_SizeQuery ==
  [][db_size => (err' = "" /\ db' = db /\ log' = log /\ disk' = disk /\ side' = side)]_vars

\* ---------------------------------------------------------------- C23
\* live paths a store is opened with: relative, in a directory, at the root
Paths ==
  { <<"d", "b">>, <<"v", "/", "d", "b">>, <<"/", "d", "b">>,
    <<"/", "v", "/", "s", ".", "d", "b">> }

\* C23: the side file of a compaction is the sibling '.<name>.compact' of
\* the live path, and a compaction that succeeds does not leave it behind:
\* when compact() returns the side path does not exist and the live path
\* holds what the side file held; a side file exists only while a
\* compaction runs or after one was interrupted.
C23_SideFile ==
  /\ [](\A path \in Paths :
          /\ dirname(compact_path(path)) = dirname(path)
          /\ basename(compact_path(path))
               = <<".">> \o basename(path) \o <<".", "c", "o", "m", "p", "a", "c", "t">>
          /\ compact_path(path) # path)
  /\ [][CompactReturns => (side # NoFile /\ side' = NoFile /\ disk' = side)]_vars
  /\ [](side # NoFile => (Compacting \/ side = Stale))

\* a compaction the caller asked for has returned on a store that holds a
\* key: the live file is the header and a PUT, the side path is free
C23_Witness ==
  /\ pc = "open" /\ compacted /\ inRow >= 1
  /\ side = NoFile
  /\ Len(Content(disk)) >= 2

\* ---------------------------------------------------------------- C24
\* C24: when a session exits normally right after a compact() that found
\* the queue non-empty, re-opening the store succeeds and yields the
\* snapshot the view held at the exit.
C24_CompactWithPending ==
  [][(NormalExit /\ compacted /\ inRow >= 1 /\ log # <<>>)
       => \E r \in {DictStorage_read(disk')} : r.err = "" /\ View(impl, r.data) = db]_vars

\* ---------------------------------------------------------------- C25
\* the line is an entry the block format of that version reads back: a PUT,
\* a DELETE or a CLEAR with a key it decodes and a value that is blank or
\* parses
WellFormedEntry(version, line) ==
  \E e \in {load_entry(version, line)} :
    /\ e.err = ""
    /\ e.op \in {VALUE, DELETION, CLEAR}
    /\ Strip(e.value) = <<>> \/ JsonParses(e.value)
    /\ dump_key(version, load_key(version, e.key)) = e.key

\* the file is empty, or a header of a known version followed by
\* well-formed entries only
WellFormedLog(f) ==
  \/ Content(f) = <<>>
  \/ \E y \in {createyielder(<<Content(f)[1]>>)} :
       /\ y.err = ""
       /\ \A i \in 2..Len(Content(f)) : WellFormedEntry(y.version, Content(f)[i])

\* line i of f is a DELETE of a key the replay of the lines before it does
\* not hold
DeleteMissingAt(f, i) ==
  \E y \in {createyielder(<<Content(f)[1]>>)} :
    \E e \in {load_entry(y.version, Content(f)[i])},
       before \in {DictStorage_read(SubSeq(Content(f), 1, i - 1))} :
      /\ e.op = DELETION
      /\ before.err = ""
      /\ load_key(y.version, e.key) \notin DOMAIN before.data

\* C25: opening a store whose file holds only well-formed PUT, DELETE and
\* CLEAR entries does not raise and hands out a snapshot; a DELETE of a key
\* the fold does not hold at that point leaves the fold as it was.
C25_ReplayTotal ==
  [][(pc = "closed" /\ WellFormedLog(disk))
       => /\ pc' # "closed" /\ err' = ""
          /\ \A i \in 2..Len(Content(disk)) :
               DeleteMissingAt(disk, i)
                 => \E upto \in {DictStorage_read(SubSeq(Content(disk), 1, i))},
                       before \in {DictStorage_read(SubSeq(Content(disk), 1, i - 1))} :
                      upto.err = "" /\ upto.data = before.data]_vars

\* ---------------------------------------------------------------- C26
\* C26: no operation of a view enqueues a DELETE for a key the snapshot
\* does not hold when the operation is called: whenever a step of a session
\* adds a DELETE to the queue, its key was in the snapshot before the step.
C26_DeleteOnlyLive ==
  [][(pc = "open" /\ pc' = "open" /\ Len(log') = Len(log) + 1
        /\ log'[Len(log')][1] = DELETION)
       => log'[Len(log')][2] \in DOMAIN db]_vars

\* ---------------------------------------------------------------- C27
\* C27: clear() on the map view does not raise, empties the snapshot and
\* adds exactly one CLEAR entry, (CLEAR, '', null), at the end of the queue.
C27_ClearQueued ==
  [][DictDB_clear
       => (err' = "" /\ db' = EmptyDict /\ log' = Append(log, clear_entry))]_vars

\* ---------------------------------------------------------------- C28
\* the line the driver writes for a queue entry
LineOf(entry) == write_entry(driver_block, entry[1], entry[2], Deref(entry[3]))

\* C28: commit() (called by the caller on the storage, or by open_database
\* at a normal exit) leaves the queue empty and the file as it was followed
\* by the queue's entries in queue order, after a header when the file was
\* empty; a commit that finds the queue empty, as a second commit in a row
\* does, leaves the file as it is.
C28_Commit ==
  [][(DictStorage_commit \/ NormalExit)
       => /\ log' = <<>>
          /\ IF log = <<>>
               THEN disk' = disk
               ELSE /\ Len(disk') = Len(Content(disk)) + Len(log)
                                      + (IF Content(disk) = <<>> THEN 1 ELSE 0)
                    /\ SubSeq(disk', 1, Len(Content(disk))) = Content(disk)
                    /\ Content(disk) = <<>> => disk'[1] = write_header(driver_block)
                    /\ \A i \in 1..Len(log) :
                         disk'[Len(disk') - Len(log) + i] = LineOf(log[i])]_vars

\* the storage has committed a queue of two different entries in a session
\* that goes on: the queue is empty and the file ends with their two lines
C28_Witness ==
  /\ pc = "open" /\ log = <<>>
  /\ Len(flushed) = 2 /\ flushed[1] # flushed[2]
  /\ Len(Content(disk)) >= 3
  /\ Content(disk)[Len(Content(disk)) - 1] = LineOf(flushed[1])
  /\ Content(disk)[Len(Content(disk))] = LineOf(flushed[2])

\* ---------------------------------------------------------------- C29
\* what a call on the storage engine leaves alone: the files, the replay
\* statistics and the view's snapshot
StorageFrame == disk' = disk /\ side' = side /\ stats' = stats /\ db' = db

\* C29: setitem(key, value), delitem(key) and clear on the storage engine
\* each add exactly one entry at the end of the queue, (PUT, key, value),
\* (DELETE, key, null) and (CLEAR, '', null), and leave the earlier
\* entries, the file and the statistics unchanged.
C29_QueueAppend ==
  [][\A key \in Keys :
       /\ \A val \in Values :
            DictStorage_setitem(key, val)
              => log' = Append(log, setitem(key, val)) /\ StorageFrame
       /\ DictStorage_delitem(key)
            => log' = Append(log, delitem(key)) /\ StorageFrame
       /\ DictStorage_clear(key)
            => log' = Append(log, clear_entry) /\ StorageFrame]_vars

\* the caller has called delitem and then clear on the storage of a store
\* that was replayed: the queue holds the DELETE and the CLEAR, the file,
\* the snapshot and the statistics are those of the replay
C29_Witness ==
  /\ pc = "open"
  /\ log = <<delitem(PyStr(<<"a">>)), clear_entry>>
  /\ stats = openStats /\ stats # NoStats
  /\ \E r \in {DictStorage_read(disk)} : r.err = "" /\ r.data = db

\* ---------------------------------------------------------------- C30
\* g is f with something added at its end
Extends(g, f) ==
  /\ Len(Content(g)) > Len(Content(f))
  /\ SubSeq(Content(g), 1, Len(Content(f))) = Content(f)

\* C30: the live file is never changed in place. Across every step, the
\* failed open and the interruption included, what the live path holds
\* stays the same, or grows at its end in the commit of a normal exit, or
\* is replaced as a whole by the finished side file when compact() returns.
C30_NoInPlace ==
  [][\/ Content(disk') = Content(disk)
     \/ NormalExit /\ log # <<>> /\ Extends(disk', disk)
     \/ CompactReturns /\ todo = {} /\ disk' = side /\ side # NoFile]_vars

\* a normal exit has appended its queue to a file that held an entry
\* before: the file is longer than a header and the queue
C30_Witness ==
  /\ pc = "closed" /\ exit = "normal"
  /\ flushed # <<>>
  /\ Len(Content(disk)) > 1 + Len(flushed)

\* ---------------------------------------------------------------- C31
\* the line 'version=<id>' of a block format the driver knows
HeaderLine(line) == \E v \in block_formats : line = <<"version", "=", v, DELIM>>

\* a line of three fields, of which the second and the third may be empty:
\* an operation tag, a space, and the rest up to the one line end
EntryShape(line) ==
  /\ Len(line) >= 4
  /\ <<line[1]>> \in {VALUE, DELETION, CLEAR}
  /\ line[2] = SPACE
  /\ \E i \in 3..(Len(line) - 1) : line[i] = SPACE
  /\ \A i \in 1..Len(line) : (line[i] = DELIM) <=> (i = Len(line))

\* a file that is empty or is one header line and then entry lines only
HeaderThenEntries(f) ==
  \/ f = <<>>
  \/ /\ HeaderLine(f[1])
     /\ \A i \in 2..Len(f) : EntryShape(f[i])

\* what a step may do to the header of the live file and of the side file
HeaderStep ==
  /\ (Content(disk) = <<>> /\ Content(disk') # <<>>)
     => \/ /\ pc = "open" /\ log # <<>>
           /\ Len(disk') = 1 + Len(log)
           /\ disk'[1] = <<"version", "=", driver_block, DELIM>>
        \/ /\ pc \in {"compacting", "autocompacting"} /\ todo = {}
           /\ disk' = side
  /\ (Content(disk) # <<>> /\ disk' # disk)
     => \/ /\ Len(disk') > Len(disk)
           /\ SubSeq(disk', 1, Len(disk)) = disk
        \/ /\ pc \in {"compacting", "autocompacting"} /\ todo = {}
           /\ disk' = side
  /\ (pc \notin {"compacting", "autocompacting"}
        /\ pc' \in {"compacting", "autocompacting"})
     => side' = <<<<"version", "=", driver_block, DELIM>>>>
  /\ (pc \in {"compacting", "autocompacting"} /\ side' # side /\ pc' = pc)
     => /\ Len(side') = Len(side) + 1
        /\ SubSeq(side', 1, Len(side)) = side
        /\ EntryShape(side'[Len(side')])
  /\ (pc = "closed" /\ Content(disk) = <<>>)
     => /\ pc' = "open" /\ err' = ""
        /\ db' = EmptyDict
        /\ disk' = <<>>
        /\ createyielder(Content(disk))
             = [err |-> "", version |-> default_block, lines |-> <<>>]

\* C31: header invariant. In every reachable state the live file is absent,
\* empty, or one header line followed by entry lines only. A file gets its
\* header in one of two steps: the append of a non-empty queue that finds
\* the file empty, which writes the header before the entries, and the
\* compaction, which writes it first into the side file it creates and then
\* renames that file. Opening an absent or empty file succeeds with an empty
\* snapshot, read with the default block format.
C31_HeaderInvariant ==
  /\ [](disk = NoFile \/ HeaderThenEntries(disk))
  /\ [][HeaderStep]_vars

\* a normal exit has appended its queue to a file it found empty: the file
\* is the header and one line for each entry of the queue
C31_Witness ==
  /\ pc = "closed" /\ exit = "normal"
  /\ flushed # <<>>
  /\ Len(Content(disk)) = 1 + Len(flushed)
  /\ HeaderLine(disk[1])
  /\ disk[1] = write_header(default_block)

\* ---------------------------------------------------------------- C32
\* the entry lines of the live file
EntryLines == Tail(Content(disk))

\* the triple readblocks yields for the i-th entry line
Triple(i) ==
  LET e == load_entry(gen.block, EntryLines[i]) IN <<e.op, e.key, e.value>>

\* a generator is running and reads from an open file
Reading == gen.it \in {"new", "suspended"} /\ gen.file = "fd"

\* what a step of a yielder may do
YielderStep ==
  \* each line is yielded once, in line order
  /\ gen' # NoYielder
     => /\ Len(gen'.out) <= Len(EntryLines)
        /\ \/ gen'.out = gen.out
           \/ /\ gen # NoYielder
              /\ gen'.out = Append(gen.out, Triple(Len(gen.out) + 1))
              /\ gen'.rest = SubSeq(EntryLines, Len(gen.out) + 2, Len(EntryLines))
  \* the sequence ends when the lines are exhausted, and releases the file
  /\ (Reading /\ gen.rest = <<>> /\ gen'.it = "done" /\ gen'.raised = "StopIteration")
     => /\ fd' = "closed" /\ gen'.file = "None"
        /\ Len(gen'.out) = Len(EntryLines)
  \* a line that does not decode ends the sequence and releases the file
  /\ (Reading /\ gen.rest # <<>> /\ load_entry(gen.block, Head(gen.rest)).err # ""
        /\ gen'.rest # gen.rest)
     => /\ fd' = "closed" /\ gen'.file = "None"
        /\ gen'.it = "done"
        /\ gen'.out = gen.out
        /\ gen'.raised = "ValueError"
  \* once the file is released, a generator fails at its first step
  /\ (gen.it = "new" /\ gen.file = "None" /\ gen'.raised # "")
     => /\ gen'.raised = "Exception: file not open"
        /\ err' = "Exception: file not open"
        /\ gen'.out = gen.out
        /\ gen'.it = "done"
  \* and the file is never opened again
  /\ (gen # NoYielder /\ (gen.file = "None" \/ fd = "closed"))
     => gen'.file = "None" /\ fd' = "closed"

\* C32: the entry stream is finite and non-restartable. readblocks() yields
\* the triples of the file's entry lines once, in line order; when the lines
\* are exhausted, and when a line does not decode, the generator ends and
\* the file handle is closed and forgotten; a readblocks() made after that
\* raises 'file not open' at its first step and yields nothing.
C32_NonRestartable ==
  /\ [](gen # NoYielder => (gen.file = "None" <=> fd = "closed"))
  /\ [][YielderStep]_vars

\* a second readblocks() has failed after the first one yielded an entry
\* and ran to the end of a file of two entries
C32_Witness ==
  /\ gen.calls = 2 /\ gen.it = "done"
  /\ gen.raised = "Exception: file not open"
  /\ Len(gen.out) >= 1
  /\ Len(EntryLines) = 2
  /\ fd = "closed"

\* ---------------------------------------------------------------- C33
\* the storage engine of the session is at rest before and after the step:
\* a call of setitem, delitem, clear or commit, and nothing else, was made
StorageCall == pc = "open" /\ pc' = "open"

\* what a step may do to DictStorage._stats
StatsStep ==
  /\ StorageCall => stats' = stats
  /\ (pc = "closed" /\ pc' # "closed")
     => /\ stats' # NoStats
        /\ stats' = DictStorage_read(disk).stats
  /\ stats' # stats
     => \/ pc = "closed" /\ pc' # "closed"
        \/ pc \in {"compacting", "autocompacting"} /\ todo = {} /\ stats' = ZeroStats
        \/ pc' = "closed" /\ stats' = NoStats

\* C33: stats() is None as long as the storage engine has replayed nothing;
\* after read() it is the statistics of that replay. It is not recomputed
\* during the session: setitem, delitem, clear and commit leave it as it is,
\* and the only steps that change it are read() and the end of compact().
C33_StatsFrame ==
  /\ [](pc = "closed" => stats = NoStats)
  /\ [][StatsStep]_vars

\* the replay counted a deletion, a compaction has reset the statistics,
\* and a deletion and a clear put on the queue since have left them at zero
C33_Witness ==
  /\ pc = "open"
  /\ openStats = DictStorageStats(0, 1, 1)
  /\ stats = ZeroStats
  /\ log = <<delitem(PyStr(<<"a">>)), clear_entry>>

\* ---------------------------------------------------------------- C34
\* a compact() has returned earlier in this session
CompactedBefore == ret # NoReturn

\* C34: compact() on a view returns what DictStorage.compact returns: the
\* statistics as they were just before this compaction. The first compact()
\* of a session returns the statistics of the replay, and every compact()
\* after it in the same session returns statistics that are all zero.
C34_CompactReturn ==
  [][CompactReturns
       => /\ ret' # NoReturn
          /\ CompactedBefore => ret' = <<"stats", DictStorageStats(0, 0, 0)>>
          /\ ~CompactedBefore => ret' = <<"stats", openStats>>]_vars

\* two compactions in a row have returned in a session whose replay counted
\* a deletion: the second one returned zeros
C34_Witness ==
  /\ pc = "open"
  /\ inRow = 2 /\ autoCompactions = 0
  /\ openStats = DictStorageStats(0, 1, 1)
  /\ ret = <<"stats", DictStorageStats(0, 0, 0)>>

\* ---------------------------------------------------------------- C35
\* popitem() has removed the pair of key from the snapshot and returned it,
\* and has put one deletion of key at the end of the queue
Popped(key) ==
  /\ DOMAIN db' = DOMAIN db \ {key}
  /\ \A k \in DOMAIN db' : db'[k] = db[k]
  /\ ret' = <<"pair", key, db[key]>>
  /\ Len(log') = Len(log) + 1
  /\ SubSeq(log', 1, Len(log)) = log
  /\ log'[Len(log')] = <<DELETION, key, PyNone>>

\* C35: popitem() on a map view that is not empty removes one pair from the
\* snapshot, returns that pair, and puts exactly one deletion, of the key it
\* removed, on the queue; the other keys keep their values.
C35_PopItem ==
  [][(DictDB_popitem /\ db # EmptyDict)
       => /\ err' = ""
          /\ \E key \in DOMAIN db : Popped(key)]_vars

\* popitem() has returned a pair in a session that had put a value before;
\* its deletion is the last entry of the queue and a key is left
C35_Witness ==
  /\ pc = "open" /\ impl = "DictDB"
  /\ ret[1] = "pair"
  /\ Len(log) = 2
  /\ log[2] = <<DELETION, ret[2], PyNone>>
  /\ ret[2] \notin DOMAIN db
  /\ db # EmptyDict

\* ---------------------------------------------------------------- C36
\* the member key, and no other, has left the set, and one deletion of key
\* with a null value is the new last entry of the queue
Removed(key) ==
  /\ key \in DOMAIN db
  /\ DOMAIN db' = DOMAIN db \ {key}
  /\ Len(log') = Len(log) + 1
  /\ SubSeq(log', 1, Len(log)) = log
  /\ log'[Len(log')] = <<DELETION, key, PyNone>>
  /\ err' = ""

\* C36: on a set view, remove(x) of a member x removes x and nothing else,
\* and pop() on a set that is not empty removes one member and returns it;
\* each puts exactly one deletion of the removed member, with a null value,
\* on the queue.
C36_SetRemovePop ==
  [][/\ \A key \in Keys : (SetDB_remove(key) /\ key \in DOMAIN db) => Removed(key)
     /\ (SetDB_pop /\ db # EmptyDict)
          => \E key \in DOMAIN db : Removed(key) /\ ret' = <<"key", key>>]_vars

\* pop() has taken one of two members: the member it returned is gone, its
\* deletion is the last entry of the queue and the other member is left
C36_Witness ==
  /\ pc = "open" /\ impl = "SetDB"
  /\ ret[1] = "key"
  /\ ret[2] \notin DOMAIN db
  /\ db # EmptyDict
  /\ log # <<>>
  /\ log[Len(log)] = <<DELETION, ret[2], PyNone>>

\* ---------------------------------------------------------------- C37
\* C37: an interrupted commit loses at most the entries that were not
\* written whole. When the process was interrupted inside appendlog, after
\* the whole of some of the queue's lines and part of the next one had
\* reached the file, the next open_database succeeds, and its snapshot is
\* the replay of the lines that are whole: the line that was cut short
\* changes no key.
C37_TornCommit ==
  [][(pc = "closed" /\ exit = "crash_commit")
       => \E r \in {DictStorage_read(WholeLines(Content(disk)))} :
            r.err = "" => /\ err' = ""
                          /\ pc' # "closed"
                          /\ db' = View("DictDB", r.data)]_vars

\* ---------------------------------------------------------------- C38
\* the step is a put or a remove of ident on a view of the tvdb edition
PutOrRemove(ident) ==
  \/ \E data \in Values : Database_put(ident, data)
  \/ Database_remove(ident)
  \/ SetDatabase_add(ident)
  \/ SetDatabase_remove(ident)

\* the identifier holds a space or a newline
Unloggable(ident) == \E i \in 1..Len(ident.v) : ident.v[i] \in {" ", "\n"}

\* C38: in the tvdb edition a put or a remove whose identifier holds a space
\* or a newline raises an error and changes neither the pending log nor the
\* cache of the view, so the cache never holds a key that cannot be logged.
C38_IdentifierRejected ==
  [][/\ \A ident \in Identifiers :
          (Unloggable(ident) /\ PutOrRemove(ident))
            => /\ err' # ""
               /\ log' = log
               /\ db' = db
     /\ \A k \in DOMAIN db' : ~Unloggable(k)]_vars

\* ---------------------------------------------------------------- C39
\* what a step of a session that has nothing pending may do to the file
EmptyCommitStep ==
  /\ ((DictStorage_commit \/ NormalExit) /\ log = <<>>) => disk' = disk
  /\ (pc = "closed" /\ pc' = "open") => Content(disk') = Content(disk)
  /\ (pc = "open" /\ pc' = "closed" /\ log = <<>>) => disk' = disk

\* C39: commit() with an empty queue leaves the file as it is, byte for
\* byte: no header and no entry is written. The open that hands out the
\* view without compacting changes no byte either, so a session that
\* changes nothing and is not auto-compacted leaves the file's content as
\* it found it.
C39_EmptyCommit ==
  [][EmptyCommitStep]_vars

\* a session on an absent file has ended normally with an empty queue: the
\* file open_database created is empty, without a header
C39_Witness ==
  /\ pc = "closed" /\ exit = "normal"
  /\ flushed = <<>>
  /\ disk = <<>>

\* ---------------------------------------------------------------- C40
\* BaseBlock.load_item on the key and the value of a triple readblocks
\* has yielded, with the operation tag of the triple
Loaded(version, triple) ==
  <<triple[1], load_key(version, triple[2]), load_value(version, triple[3])>>

\* C40: codec round trip. For both block formats, every operation tag, key
\* and value: the line write_entry writes for them, decoded by load_entry
\* and the load hooks of the same format, gives the same operation tag, key
\* and value, a key whose encoded form holds a space included.
C40_CodecRoundTrip ==
  \A i \in 1..Len(gen.out) :
    \A op \in {VALUE, DELETION, CLEAR}, key \in Keys \cup {PyStr(<<>>)},
       val \in Values \cup {PyNone} :
      EntryLines[i] = write_entry(gen.block, op, key, val)
        => Loaded(gen.block, gen.out[i]) = <<op, key, val>>

====
